---- MODULE Spec2Model ----
(***************************************************************************)
(* Bitcoin-Inheritance: the inheritance contract script, its relative      *)
(* timelock encoding, the contract registry and the two withdrawal         *)
(* workflows, modelled from the Go sources.                                *)
(*                                                                         *)
(* Ten specifications share the variables below:                           *)
(*   SpecTimelock  calculateRelativeTimelock applied to a day count        *)
(*   SpecRedeem    NewInheritanceScript over the day counts 0..24855       *)
(*   SpecScript    a caller of package script: construction, validation    *)
(*                 and the commitment methods                              *)
(*   SpecValidate  ValidateTransaction applied to any transaction          *)
(*   SpecSignAny   the Sign* methods applied to any transaction and script *)
(*   SpecBuilder   the TransactionBuilder drawn over amounts and fees      *)
(*   SpecSigner    the TransactionBuilder drawn over keys, with signing    *)
(*   SpecBuildSign the TransactionBuilder drawn over amounts and fees,     *)
(*                 with signing                                            *)
(*   SpecContractID  GenerateContractID and SaveContractInfo applied to    *)
(*                 P2WSH addresses                                         *)
(*   Spec          the command line program: generate, funding updates,    *)
(*                 owner-withdraw and inheritor-withdraw                   *)
(***************************************************************************)
EXTENDS Integers, Sequences, FiniteSets, Bags, TLC

VARIABLES
    cfg,          \* main.go `cfg`: configuration of the command being run
    contracts,    \* the contracts/ directory: contract ID -> ContractInfo
    tx,           \* the *wire.MsgTx in hand: <<>> is nil, <<t>> a transaction
    result,       \* what the last operation returned
    call,         \* the last operation and the arguments it was given
    prevOut,      \* the prevOutFetcher entry of the last Sign* call
    args,         \* SpecTimelock, SpecBuilder, SpecSigner: what the caller holds
    retTimelock,  \* SpecTimelock: <<>> before the call, <<value>> after
    scripts       \* the *InheritanceScript values constructed, newest last

vars == <<cfg, contracts, tx, result, call, prevOut, args, retTimelock, scripts>>

(***************************************************************************)
(* Go integer arithmetic.  Day counts handed to the script package, the    *)
(* timelock computed from them, amounts and fees are int64 values kept at  *)
(* their width, as four 16-bit words.  The day count of the configuration  *)
(* is a mathematical integer (the values explored are small).              *)
(***************************************************************************)

RECURSIVE BitOr(_, _)
\* Go's `|` on two's complement integers (bit i of a negative value n is
\* (n \div 2^i) % 2 under flooring division).
BitOr(a, b) ==
    IF a = 0 THEN b
    ELSE IF b = 0 THEN a
    ELSE IF a = -1 \/ b = -1 THEN -1
    ELSE 2 * BitOr(a \div 2, b \div 2)
         + (IF a % 2 = 1 \/ b % 2 = 1 THEN 1 ELSE 0)

RECURSIVE BitAnd(_, _)
\* Go's `&` on two's complement integers.
BitAnd(a, b) ==
    IF a = 0 \/ b = 0 THEN 0
    ELSE IF a = -1 THEN b
    ELSE IF b = -1 THEN a
    ELSE 2 * BitAnd(a \div 2, b \div 2) + (a % 2) * (b % 2)

\* 16-bit words: a uint32 is <<high word, low word>>, an int64 is
\* <<w3, w2, w1, w0>> in two's complement, most significant word first.
WordBase == 65536

\* The int64 holding the integer n (n within the model's integer range).
Int64Words(n) ==
    << (((n \div WordBase) \div WordBase) \div WordBase) % WordBase,
       ((n \div WordBase) \div WordBase) % WordBase,
       (n \div WordBase) % WordBase,
       n % WordBase >>

\* A conversion that refuses what does not fit instead of truncating it:
\* out-of-range values leave the sequence at its default.
Uint32OfInt64_checked(v) ==
    IF v[1] = 0 /\ v[2] = 0 THEN << v[3], v[4] >> ELSE << WordBase - 1, WordBase - 1 >>

\* Go's conversion uint32(v) of an int64 v: the low 32 bits.
Uint32OfInt64(v) == << v[3], v[4] >>

\* The int64 that holds the same number as the uint32 u.
Int64OfUint32(u) == << 0, 0, u[1], u[2] >>

RECURSIVE AddCarry(_, _, _)
\* Word-wise addition of two equally long word sequences with a carry in;
\* the carry out of the top word is dropped.
AddCarry(a, b, c) ==
    IF a = <<>> THEN <<>>
    ELSE LET n == Len(a)
             s == a[n] + b[n] + c
         IN  AddCarry(SubSeq(a, 1, n - 1), SubSeq(b, 1, n - 1), s \div WordBase)
             \o << s % WordBase >>

\* Go's `+` on int64: wraps modulo 2^64.
Add64(a, b) == AddCarry(a, b, 0)

\* Go's `-` on int64: a + ^b + 1, wraps modulo 2^64.
Sub64(a, b) == AddCarry(a, [i \in 1 .. Len(b) |-> WordBase - 1 - b[i]], 1)

\* v < 0 for an int64 v: the sign bit.
IsNegative64(v) == v[1] >= WordBase \div 2

\* v == 0 for an int64 v.
IsZero64(v) == \A i \in 1 .. Len(v) : v[i] = 0

\* The integer an int64 holds, for values within the model's integer range.
Int64Value(v) ==
    IF IsNegative64(v)
    THEN (v[3] - WordBase) * WordBase + v[4]
    ELSE v[3] * WordBase + v[4]

RECURSIVE MulCarry(_, _, _)
\* Word-wise product of a word sequence and a factor below 2^15 with a carry
\* in; the carry out of the top word is dropped.
MulCarry(a, k, c) ==
    IF a = <<>> THEN <<>>
    ELSE LET n == Len(a)
             p == a[n] * k + c
         IN  MulCarry(SubSeq(a, 1, n - 1), k, p \div WordBase)
             \o << p % WordBase >>

\* Go's `*` on int64 with a small non-negative constant: wraps modulo 2^64.
Mul64(a, k) == MulCarry(a, k, 0)

\* Go's unary `-` on int64 (the minimum value is its own negation).
Neg64(a) == Sub64(<< 0, 0, 0, 0 >>, a)

RECURSIVE DivRem(_, _, _)
\* Long division of an unsigned word sequence by a divisor below 2^15, most
\* significant word first, r the remainder carried in.
DivRem(a, d, r) ==
    IF a = <<>> THEN <<>>
    ELSE LET cur == r * WordBase + a[1]
         IN  << cur \div d >> \o DivRem(Tail(a), d, cur % d)

\* Go's `/` on int64 with a small positive constant: truncates toward zero.
Quot64(a, d) ==
    IF IsNegative64(a) THEN Neg64(DivRem(Neg64(a), d, 0)) ELSE DivRem(a, d, 0)

\* Go's `|` on two int64 values.
Or64(a, b) == [i \in 1 .. 4 |-> BitOr(a[i], b[i])]

(***************************************************************************)
(* script: calculateRelativeTimelock                                       *)
(***************************************************************************)

\* Bit 22, the BIP 68 type flag (0x400000).
TimeFlag == 4194304

\* The block-count formula of inheritorWithdraw used in place of the
\* BIP 68 encoding.
calculateRelativeTimelock_blocks(days) == Mul64(Mul64(days, 24), 6)

\* totalSeconds := days * 24 * 60 * 60; intervals := totalSeconds / 512;
\* return intervals | 0x400000.  All three are int64: the products wrap
\* modulo 2^64 and the division truncates toward zero.
calculateRelativeTimelock(days) ==
    LET totalSeconds == Mul64(Mul64(Mul64(days, 24), 60), 60)
        intervals    == Quot64(totalSeconds, 512)
    IN  Or64(intervals, Int64Words(TimeFlag))

(***************************************************************************)
(* Byte strings are sequences of integers 0..255.                          *)
(***************************************************************************)

\* A checksum of the message: the sum of (msg[j] * weight(j) + 1) over its
\* positions j, modulo 65521, taken as the cardinality of the bag that holds
\* position j that many times.
Sum(msg) ==
    BagCardinality([j \in 1 .. Len(msg) |-> msg[j] * ((j % 61) + 1) + 1]) % 65521

\* Stand-in for a cryptographic digest of `size` bytes: a deterministic
\* function of the whole message, of the message length and of the digest
\* algorithm (`salt`).  Digest lengths and which digest is applied to which
\* bytes are as in the code; collision resistance is not modelled.
Digest(salt, size, msg) ==
    LET s == Sum(msg)
    IN  [i \in 1 .. size |->
            (s * (i + salt) + (s \div 256) * (i * i + 1) + Len(msg) + salt * i * i) % 256]

\* crypto/sha256.Sum256: 32 bytes.
SHA256(msg) == Digest(1, 32, msg)

\* btcutil.Hash160 = RIPEMD160(SHA256(msg)): 20 bytes.
Hash160(msg) == Digest(2, 20, SHA256(msg))

\* chainhash.DoubleHashB: SHA256(SHA256(msg)), 32 bytes.
DoubleSHA256(msg) == SHA256(SHA256(msg))

\* encoding/hex and fmt "%x": two hex digits (values 0..15) per byte.
HexEncode(bytes) ==
    [i \in 1 .. 2 * Len(bytes) |->
        IF i % 2 = 1 THEN bytes[(i + 1) \div 2] \div 16
                     ELSE bytes[i \div 2] % 16]

\* hex.DecodeString: an odd number of digits is an error.
HexDecode(digits) ==
    IF Len(digits) % 2 = 1
    THEN [bytes |-> <<>>, err |-> "encoding/hex: odd length hex string"]
    ELSE [bytes |-> [i \in 1 .. Len(digits) \div 2 |->
                        16 * digits[2 * i - 1] + digits[2 * i]],
          err |-> "nil"]

\* chainhash.NewHashFromStr: a string of at most 64 hex digits, padded on
\* the left with zeros and stored byte-reversed.  Digits are values 0..15; a
\* value above 15 is a character that is no hex digit.
MaxHashStringSize == 64
NewHashFromStr(str) ==
    IF Len(str) > MaxHashStringSize
    THEN [hash |-> <<>>, err |-> "max hash string length is 64 bytes"]
    ELSE IF \E i \in 1 .. Len(str) : str[i] > 15
    THEN [hash |-> <<>>, err |-> "encoding/hex: invalid byte"]
    ELSE LET padded == [i \in 1 .. MaxHashStringSize - Len(str) |-> 0] \o str
             bytes  == HexDecode(padded).bytes
         IN  [hash |-> [i \in 1 .. 32 |-> bytes[33 - i]], err |-> "nil"]

(***************************************************************************)
(* txscript: opcodes and the ScriptBuilder pushes the code uses.           *)
(***************************************************************************)

OP_0 == 0                          \* 0x00
OP_PUSHDATA1 == 76                 \* 0x4c
OP_1NEGATE == 79                   \* 0x4f
OP_1 == 81                         \* 0x51
OP_IF == 99                        \* 0x63
OP_ELSE == 103                     \* 0x67
OP_ENDIF == 104                    \* 0x68
OP_DROP == 117                     \* 0x75
OP_CHECKSIG == 172                 \* 0xac
OP_CHECKSEQUENCEVERIFY == 178      \* 0xb2
SigHashAll == 1
MaxScriptElementSize == 520

RECURSIVE TrimZeros(_)
\* A little-endian byte string without its most significant zero bytes.
TrimZeros(b) ==
    IF b = <<>> \/ b[Len(b)] # 0 THEN b ELSE TrimZeros(SubSeq(b, 1, Len(b) - 1))

\* The eight bytes of an int64, least significant first.
Bytes64(v) ==
    << v[4] % 256, v[4] \div 256, v[3] % 256, v[3] \div 256,
       v[2] % 256, v[2] \div 256, v[1] % 256, v[1] \div 256 >>

\* scriptNum.Bytes: minimal little-endian sign-magnitude encoding of an
\* int64 other than the minimum value.
ScriptNumBytes(n) ==
    LET neg == IsNegative64(n)
        mag == TrimZeros(Bytes64(IF neg THEN Neg64(n) ELSE n))
        top == mag[Len(mag)]
    IN  IF IsZero64(n) THEN <<>>
        ELSE IF top >= 128
             THEN mag \o <<IF neg THEN 128 ELSE 0>>
             ELSE IF neg
                  THEN [mag EXCEPT ![Len(mag)] = top + 128]
                  ELSE mag

\* ScriptBuilder.AddData: the bytes appended for a data push (canonical
\* form), for data up to 255 bytes.
AddData(data) ==
    IF Len(data) = 0 \/ (Len(data) = 1 /\ data[1] = 0) THEN <<OP_0>>
    ELSE IF Len(data) = 1 /\ data[1] <= 16 THEN <<OP_1 - 1 + data[1]>>
    ELSE IF Len(data) = 1 /\ data[1] = 129 THEN <<OP_1NEGATE>>
    ELSE IF Len(data) < OP_PUSHDATA1 THEN <<Len(data)>> \o data
    ELSE <<OP_PUSHDATA1, Len(data)>> \o data

\* A push of the value's low four bytes at fixed width, not minimal.
AddInt64_fixed(val) == AddData(SubSeq(Bytes64(val), 1, 4))

\* ScriptBuilder.AddInt64: small integers become one opcode, every other
\* value a push of its script number.
AddInt64(val) ==
    IF IsZero64(val) THEN <<OP_0>>
    ELSE IF val = Int64Words(-1) THEN <<OP_1NEGATE>>
    ELSE IF val[1] = 0 /\ val[2] = 0 /\ val[3] = 0 /\ val[4] >= 1 /\ val[4] <= 16
         THEN <<OP_1 - 1 + val[4]>>
    ELSE AddData(ScriptNumBytes(val))

(***************************************************************************)
(* keys                                                                    *)
(***************************************************************************)

\* Private keys are 1..NumKeys.
NumKeys == 2
PrivKeys == 1 .. NumKeys

\* PrivateKey.PubKey().SerializeCompressed(): 33 bytes, a parity prefix
\* 0x02/0x03 and 32 bytes determined by the private key.
PubKeyBytes(priv) ==
    <<2 + (priv % 2)>> \o [i \in 1 .. 32 |-> (priv * 37 + i * 11) % 256]

\* KeyPair.GetCompressedPubKeyBytes.
GetCompressedPubKeyBytes(kp) == PubKeyBytes(kp.PrivateKey)

\* btcutil.NewWIF(...).String() and btcutil.DecodeWIF: the WIF string of a
\* private key names the key and the network it was made for.
WIFString(priv, network) == [key |-> priv, net |-> network]

\* keys.KeyPairFromWIF: the chain parameters given are stored, never
\* compared with the network of the WIF.
KeyPairFromWIF(wifStr, chainParams) ==
    [PrivateKey |-> wifStr.key, WIF |-> wifStr, ChainParams |-> chainParams]

\* keys.NewKeyPair with the private key btcec.NewPrivateKey drew.
NewKeyPair(priv, chainParams) ==
    [PrivateKey |-> priv, WIF |-> WIFString(priv, chainParams),
     ChainParams |-> chainParams]

(***************************************************************************)
(* script: the inheritance script and its commitment.                      *)
(***************************************************************************)

\* buildRedeemScript: OP_IF <owner> OP_CHECKSIG OP_ELSE <timelock>
\* OP_CHECKSEQUENCEVERIFY OP_DROP <inheritor> OP_CHECKSIG OP_ENDIF.
\* builder.Script() fails when a push exceeded MaxScriptElementSize.
buildRedeemScript(ownerPubKey, inheritorPubKey, relativeTimelock) ==
    IF \/ Len(ownerPubKey) > MaxScriptElementSize
       \/ Len(inheritorPubKey) > MaxScriptElementSize
    THEN [script |-> <<>>, err |-> "script element too large"]
    ELSE [script |->
              <<OP_IF>> \o AddData(ownerPubKey) \o <<OP_CHECKSIG>>
              \o <<OP_ELSE>> \o AddInt64(relativeTimelock)
              \o <<OP_CHECKSEQUENCEVERIFY, OP_DROP>>
              \o AddData(inheritorPubKey) \o <<OP_CHECKSIG>>
              \o <<OP_ENDIF>>,
          err |-> "nil"]

\* A constructor that numbers its scripts: the count of the scripts made
\* before is added to the timelock.
NewInheritanceScript_numbered(ownerPubKey, inheritorPubKey, timelockDays, chainParams) ==
    LET relativeTimelock == Add64(calculateRelativeTimelock(timelockDays),
                                  Int64Words(Len(scripts)))
        built == buildRedeemScript(ownerPubKey, inheritorPubKey, relativeTimelock)
    IN  IF built.err # "nil"
        THEN [is |-> <<>>, err |-> "failed to build redeem script"]
        ELSE [is |-> << [OwnerPubKey      |-> ownerPubKey,
                         InheritorPubKey  |-> inheritorPubKey,
                         RelativeTimelock |-> relativeTimelock,
                         RedeemScript     |-> built.script,
                         ChainParams      |-> chainParams] >>,
              err |-> "nil"]

\* NewInheritanceScript: <<>> and an error, or <<script>>.
NewInheritanceScript(ownerPubKey, inheritorPubKey, timelockDays, chainParams) ==
    LET relativeTimelock == calculateRelativeTimelock(timelockDays)
        built == buildRedeemScript(ownerPubKey, inheritorPubKey, relativeTimelock)
    IN  IF built.err # "nil"
        THEN [is |-> <<>>, err |-> "failed to build redeem script"]
        ELSE [is |-> << [OwnerPubKey      |-> ownerPubKey,
                         InheritorPubKey  |-> inheritorPubKey,
                         RelativeTimelock |-> relativeTimelock,
                         RedeemScript     |-> built.script,
                         ChainParams      |-> chainParams] >>,
              err |-> "nil"]

\* The double SHA-256 of the redeem script in place of the single one.
GetScriptHash_double(is) == DoubleSHA256(is.RedeemScript)

\* InheritanceScript.GetScriptHash.
GetScriptHash(is) == SHA256(is.RedeemScript)

\* chaincfg: Bech32HRPSegwit of the two networks.
Bech32HRP(chainParams) == IF chainParams = "mainnet" THEN "bc" ELSE "tb"

\* btcutil.NewAddressWitnessScriptHash: the program must be 32 bytes.
NewAddressWitnessScriptHash(witnessProg, chainParams) ==
    IF Len(witnessProg) # 32
    THEN [addr |-> <<>>, err |-> "witness program must be 32 bytes for p2wsh"]
    ELSE [addr |-> << [kind |-> "p2wsh", hrp |-> Bech32HRP(chainParams),
                       witnessVersion |-> 0, witnessProgram |-> witnessProg] >>,
          err |-> "nil"]

\* The bech32 character set "qpzry9x8gf2tvdw0s3jn54khce6mua7l", as ASCII.
Bech32Charset ==
    << 113, 112, 122, 114, 121, 57, 120, 56, 103, 102, 50, 116, 118, 100, 119, 48,
       115, 51, 106, 110, 53, 52, 107, 104, 99, 101, 54, 109, 117, 97, 55, 108 >>

\* The human-readable part and the separator '1', as ASCII: "tb1" or "bc1".
Bech32Prefix(hrp) == IF hrp = "bc" THEN <<98, 99, 49>> ELSE <<116, 98, 49>>

\* bech32.ConvertBits(data, 8, 5, true): 5-bit groups, most significant bit
\* first, the last group padded with zero bits.  Group k starts at bit
\* 5 * (k - 1) and lies within two neighbouring bytes.
ConvertBits8to5(bytes) ==
    LET byte(b) == IF b <= Len(bytes) THEN bytes[b] ELSE 0
        group(o) == ((256 * byte((o \div 8) + 1) + byte((o \div 8) + 2))
                        \div (2 ^ (11 - (o % 8)))) % 32
    IN  [k \in 1 .. (8 * Len(bytes) + 4) \div 5 |-> group(5 * k - 5)]

\* bech32.ConvertBits(data, 5, 8, false): the bytes of the 5-bit groups;
\* padding of 5 bits or more, or padding bits that are not zero, is an error.
\* Byte k starts at bit 8 * (k - 1) and lies within three neighbouring groups.
ConvertBits5to8(groups) ==
    LET group(g) == IF g <= Len(groups) THEN groups[g] ELSE 0
        byte(o) == ((1024 * group((o \div 5) + 1) + 32 * group((o \div 5) + 2)
                        + group((o \div 5) + 3))
                       \div (2 ^ (7 - (o % 5)))) % 256
        nBytes == (5 * Len(groups)) \div 8
        padding == 5 * Len(groups) - 8 * nBytes
    IN  IF padding >= 5 \/ (padding > 0 /\ groups[Len(groups)] % (2 ^ padding) # 0)
        THEN [bytes |-> <<>>, err |-> "invalid incomplete group"]
        ELSE [bytes |-> [k \in 1 .. nBytes |-> byte(8 * k - 8)], err |-> "nil"]

\* The exclusive or of two 5-bit values, as a table.
Xor5 ==
    [a \in 0 .. 31 |-> [b \in 0 .. 31 |->
        16 * (((a \div 16) + (b \div 16)) % 2) + 8 * (((a \div 8) + (b \div 8)) % 2)
        + 4 * (((a \div 4) + (b \div 4)) % 2) + 2 * (((a \div 2) + (b \div 2)) % 2)
        + ((a + b) % 2)]]

\* A 30-bit checksum register is six 5-bit groups, most significant first.
Groups30(n) == [k \in 1 .. 6 |-> (n \div (32 ^ (6 - k))) % 32]

XorGroups(x, y) ==
    << Xor5[x[1]][y[1]], Xor5[x[2]][y[2]], Xor5[x[3]][y[3]],
       Xor5[x[4]][y[4]], Xor5[x[5]][y[5]], Xor5[x[6]][y[6]] >>

\* bech32: the generator of the BCH code (gen in bech32Polymod).
Bech32Generator == <<996825010, 642813549, 513874426, 1027748829, 705979059>>

\* The generators selected by the bits of the register's top group b:
\* for i in 0..4, (b >> i) & 1 == 1 selects gen[i].
GeneratorMask ==
    [b \in 0 .. 31 |->
        LET sel(i, acc) == IF (b \div (2 ^ i)) % 2 = 1
                           THEN XorGroups(acc, Groups30(Bech32Generator[i + 1]))
                           ELSE acc
        IN  sel(4, sel(3, sel(2, sel(1, sel(0, Groups30(0))))))]

\* bech32Polymod, the rounds for the values from position k on: each is
\* chk = (chk & 0x1ffffff) << 5 ^ v, then the generators selected by the
\* bits shifted out.  The register is a 30-bit value, so its top group is
\* always below 32.
RECURSIVE bech32Polymod(_, _, _)
bech32Polymod(values, k, chk) ==
    IF k > Len(values) \/ chk[1] > 31 THEN chk
    ELSE bech32Polymod(values, k + 1,
             XorGroups(<<chk[2], chk[3], chk[4], chk[5], chk[6], values[k]>>,
                       GeneratorMask[chk[1]]))

\* bech32HrpExpand: the high bits of each character of the human-readable
\* part, a zero, the low five bits of each character.
bech32HrpExpand(hrp) ==
    LET chars == SubSeq(Bech32Prefix(hrp), 1, 2)
    IN  [i \in 1 .. 2 |-> chars[i] \div 32] \o <<0>> \o [i \in 1 .. 2 |-> chars[i] % 32]

\* The six 5-bit checksum values of a bech32 string: the polymod of the
\* expanded prefix, the data and six zeros, exclusive-or 1.
Bech32Checksum(hrp, data) ==
    XorGroups(bech32Polymod(bech32HrpExpand(hrp) \o data \o <<0, 0, 0, 0, 0, 0>>,
                            1, Groups30(1)),
              Groups30(1))

\* Address.EncodeAddress of a segwit address: prefix, witness version,
\* program in 5-bit groups, checksum, each data value as its character.
EncodeAddress(addr) ==
    LET data == << addr.witnessVersion >> \o ConvertBits8to5(addr.witnessProgram)
        all  == data \o Bech32Checksum(addr.hrp, data)
    IN  Bech32Prefix(addr.hrp) \o [i \in 1 .. Len(all) |-> Bech32Charset[all[i] + 1]]

\* btcutil.DecodeAddress(addr, defaultNet): <<>> and an error, or <<address>>.
\* Only strings with a registered segwit prefix reach the bech32 decoder;
\* everything else fails base58 decoding.
DecodeAddress(str, chainParams) ==
    LET
        hrp == IF Len(str) >= 3 /\ SubSeq(str, 1, 3) = Bech32Prefix("bc") THEN "bc"
               ELSE IF Len(str) >= 3 /\ SubSeq(str, 1, 3) = Bech32Prefix("tb") THEN "tb"
               ELSE "none"
        chars == SubSeq(str, 4, Len(str))
        known(c) == \E i \in 1 .. 32 : Bech32Charset[i] = c
        value(c) == (CHOOSE i \in 1 .. 32 : Bech32Charset[i] = c) - 1
        all  == [i \in 1 .. Len(chars) |-> value(chars[i])]
        data == SubSeq(all, 1, Len(all) - 6)
        prog == ConvertBits5to8(SubSeq(data, 2, Len(data)))
    IN  IF hrp = "none"
        THEN [addr |-> <<>>, err |-> "decoded address is of unknown format"]
        ELSE IF Len(chars) < 7 \/ \E i \in 1 .. Len(chars) : ~known(chars[i])
        THEN [addr |-> <<>>, err |-> "invalid bech32 string"]
        ELSE IF SubSeq(all, Len(all) - 5, Len(all)) # Bech32Checksum(hrp, data)
        THEN [addr |-> <<>>, err |-> "checksum failed"]
        ELSE IF prog.err # "nil"
        THEN [addr |-> <<>>, err |-> prog.err]
        ELSE IF data[1] # 0
        THEN [addr |-> <<>>, err |-> "unsupported witness version"]
        ELSE IF hrp # Bech32HRP(chainParams)
        THEN [addr |-> <<>>, err |-> "unknown address type"]
        ELSE IF Len(prog.bytes) = 20
        THEN [addr |-> << [kind |-> "p2wpkh", hrp |-> hrp, witnessVersion |-> 0,
                           witnessProgram |-> prog.bytes] >>, err |-> "nil"]
        ELSE IF Len(prog.bytes) = 32
        THEN [addr |-> << [kind |-> "p2wsh", hrp |-> hrp, witnessVersion |-> 0,
                           witnessProgram |-> prog.bytes] >>, err |-> "nil"]
        ELSE [addr |-> <<>>, err |-> "unsupported witness program length"]

\* InheritanceScript.GetP2WSHAddress.
GetP2WSHAddress(is) ==
    LET scriptHash == SHA256(is.RedeemScript)
        made == NewAddressWitnessScriptHash(scriptHash, is.ChainParams)
    IN  IF made.err # "nil"
        THEN [addr |-> <<>>, err |-> "failed to create P2WSH address"]
        ELSE made

\* txscript.PayToAddrScript: a witness address pays to
\* OP_0 <witness program>; a nil address is an error.
PayToAddrScript(addr) ==
    IF addr = <<>>
    THEN [script |-> <<>>, err |-> "unable to generate payment script for nil address"]
    ELSE [script |-> <<OP_0>> \o AddData(addr[1].witnessProgram), err |-> "nil"]

\* InheritanceScript.GetScriptPubKey.
GetScriptPubKey(is) ==
    LET got == GetP2WSHAddress(is)
    IN  IF got.err # "nil" THEN [script |-> <<>>, err |-> got.err]
        ELSE PayToAddrScript(got.addr)

\* A validation that looks at the owner key only.
ValidateScript_ownerOnly(is) ==
    IF Len(is.RedeemScript) = 0 THEN "redeem script is empty"
    ELSE IF Len(is.OwnerPubKey) # 33
         THEN "owner public key must be 33 bytes (compressed)"
    ELSE IF IsNegative64(is.RelativeTimelock) \/ IsZero64(is.RelativeTimelock)
         THEN "relative timelock must be positive"
    ELSE "nil"

\* A validation that does not look at the timelock.
ValidateScript_untimed(is) ==
    IF Len(is.RedeemScript) = 0 THEN "redeem script is empty"
    ELSE IF Len(is.OwnerPubKey) # 33
         THEN "owner public key must be 33 bytes (compressed)"
    ELSE IF Len(is.InheritorPubKey) # 33
         THEN "inheritor public key must be 33 bytes (compressed)"
    ELSE "nil"

\* InheritanceScript.ValidateScript: "nil" or the first failed check.
ValidateScript(is) ==
    IF Len(is.RedeemScript) = 0 THEN "redeem script is empty"
    ELSE IF Len(is.OwnerPubKey) # 33
         THEN "owner public key must be 33 bytes (compressed)"
    ELSE IF Len(is.InheritorPubKey) # 33
         THEN "inheritor public key must be 33 bytes (compressed)"
    ELSE IF IsNegative64(is.RelativeTimelock) \/ IsZero64(is.RelativeTimelock)
         THEN "relative timelock must be positive"
    ELSE "nil"

(***************************************************************************)
(* transaction: UTXO, TransactionBuilder and the wire.MsgTx it builds.     *)
(***************************************************************************)

\* wire.TxVersion.
TxVersion == 1

\* wire.MaxTxInSequenceNum, 0xffffffff.
MaxTxInSequenceNum == << WordBase - 1, WordBase - 1 >>

\* wire.NewOutPoint.
NewOutPoint(hash, index) == [Hash |-> hash, Index |-> index]

\* wire.NewTxIn: the sequence starts at MaxTxInSequenceNum.
NewTxIn(prevOutPoint, signatureScript, witness) ==
    [PreviousOutPoint |-> prevOutPoint, SignatureScript |-> signatureScript,
     Witness |-> witness, Sequence |-> MaxTxInSequenceNum]

\* wire.NewTxOut.
NewTxOut(value, pkScript) == [Value |-> value, PkScript |-> pkScript]

\* wire.NewMsgTx.
NewMsgTx(version) ==
    [Version |-> version, TxIn |-> <<>>, TxOut |-> <<>>, LockTime |-> 0]

\* NewTransactionBuilder.
NewTransactionBuilder(chainParams, fee) == [chainParams |-> chainParams, fee |-> fee]

\* A builder that refuses only negative output amounts.
InsufficientFunds_negative(outputAmount) == IsNegative64(outputAmount)

\* if outputAmount <= 0 { return nil, "insufficient funds ..." }
InsufficientFunds(outputAmount) == IsNegative64(outputAmount) \/ IsZero64(outputAmount)

\* An owner withdrawal that carries the relative timelock of 180 days
\* (0x4076A7) in its input sequence.
BuildOwnerWithdrawTx_timelocked(tb, contractUTXO, destinationAddr, redeemScript) ==
    LET outPoint == NewOutPoint(contractUTXO.TxHash, contractUTXO.Vout)
        txIn == [NewTxIn(outPoint, <<>>, <<>>) EXCEPT !.Sequence = << 64, 30375 >>]
        outputAmount == Sub64(contractUTXO.Amount, tb.fee)
        destinationScript == PayToAddrScript(destinationAddr)
        txOut == NewTxOut(outputAmount, destinationScript.script)
    IN  IF InsufficientFunds(outputAmount)
        THEN [tx |-> <<>>, err |-> "insufficient funds"]
        ELSE IF destinationScript.err # "nil"
        THEN [tx |-> <<>>, err |-> "failed to create destination script"]
        ELSE [tx |-> << [NewMsgTx(TxVersion) EXCEPT !.TxIn = <<txIn>>,
                                                   !.TxOut = <<txOut>>] >>,
              err |-> "nil"]

\* TransactionBuilder.BuildOwnerWithdrawTx: <<>> and an error, or <<tx>>.
BuildOwnerWithdrawTx(tb, contractUTXO, destinationAddr, redeemScript) ==
    LET outPoint == NewOutPoint(contractUTXO.TxHash, contractUTXO.Vout)
        txIn == NewTxIn(outPoint, <<>>, <<>>)
        outputAmount == Sub64(contractUTXO.Amount, tb.fee)
        destinationScript == PayToAddrScript(destinationAddr)
        txOut == NewTxOut(outputAmount, destinationScript.script)
    IN  IF InsufficientFunds(outputAmount)
        THEN [tx |-> <<>>, err |-> "insufficient funds"]
        ELSE IF destinationScript.err # "nil"
        THEN [tx |-> <<>>, err |-> "failed to create destination script"]
        ELSE [tx |-> << [NewMsgTx(TxVersion) EXCEPT !.TxIn = <<txIn>>,
                                                   !.TxOut = <<txOut>>] >>,
              err |-> "nil"]

\* TransactionBuilder.BuildInheritorWithdrawTx; relativeTimelock is an int64.
BuildInheritorWithdrawTx(tb, contractUTXO, destinationAddr, redeemScript, relativeTimelock) ==
    LET outPoint == NewOutPoint(contractUTXO.TxHash, contractUTXO.Vout)
        txIn == [NewTxIn(outPoint, <<>>, <<>>)
                     EXCEPT !.Sequence = Uint32OfInt64(relativeTimelock)]
        outputAmount == Sub64(contractUTXO.Amount, tb.fee)
        destinationScript == PayToAddrScript(destinationAddr)
        txOut == NewTxOut(outputAmount, destinationScript.script)
    IN  IF InsufficientFunds(outputAmount)
        THEN [tx |-> <<>>, err |-> "insufficient funds"]
        ELSE IF destinationScript.err # "nil"
        THEN [tx |-> <<>>, err |-> "failed to create destination script"]
        ELSE [tx |-> << [NewMsgTx(TxVersion) EXCEPT !.TxIn = <<txIn>>,
                                                   !.TxOut = <<txOut>>] >>,
              err |-> "nil"]

RECURSIVE Flatten(_)
\* Concatenation of a sequence of sequences.
Flatten(seqs) == IF seqs = <<>> THEN <<>> ELSE Head(seqs) \o Flatten(Tail(seqs))

\* txscript.NewTxSigHashes, the three BIP 143 midstate hashes.
NewTxSigHashes(t) ==
    [HashPrevOutsV0 |-> DoubleSHA256(Flatten(
        [i \in 1 .. Len(t.TxIn) |-> t.TxIn[i].PreviousOutPoint.Hash
                                       \o << t.TxIn[i].PreviousOutPoint.Index >>])),
     HashSequenceV0 |-> DoubleSHA256(Flatten(
        [i \in 1 .. Len(t.TxIn) |-> t.TxIn[i].Sequence])),
     HashOutputsV0  |-> DoubleSHA256(Flatten(
        [i \in 1 .. Len(t.TxOut) |->
            t.TxOut[i].Value \o <<Len(t.TxOut[i].PkScript)>> \o t.TxOut[i].PkScript]))]

RECURSIVE checkScriptParses(_)
\* txscript.checkScriptParses: every push of the script has all its bytes
\* (direct pushes 1..75 and OP_PUSHDATA1 with its length byte).
checkScriptParses(script) ==
    IF script = <<>> THEN TRUE
    ELSE LET op == script[1]
             header == IF op = OP_PUSHDATA1 THEN 2 ELSE 1
             size == IF op >= 1 /\ op < OP_PUSHDATA1 THEN op
                     ELSE IF op = OP_PUSHDATA1 /\ Len(script) >= 2 THEN script[2]
                     ELSE 0
         IN  /\ Len(script) >= header + size
             /\ checkScriptParses(SubSeq(script, header + size + 1, Len(script)))

\* txscript.CalcWitnessSigHash for input idx (0-based) of t: the script must
\* parse and the input must exist; then the BIP 143 digest over version, the
\* midstate hashes, the outpoint, the script code, the input amount, the
\* input sequence, the lock time and the hash type.
\* The previous output's pkScript is not part of the digest.
CalcWitnessSigHash(script, sigHashes, hashType, t, idx, amt) ==
    IF ~checkScriptParses(script)
    THEN [hash |-> <<>>, err |-> "opcode requires more bytes than the script has"]
    ELSE IF idx > Len(t.TxIn) - 1
    THEN [hash |-> <<>>, err |-> "idx is larger than the number of inputs"]
    ELSE [hash |-> DoubleSHA256(
              <<t.Version>> \o sigHashes.HashPrevOutsV0 \o sigHashes.HashSequenceV0
              \o t.TxIn[idx + 1].PreviousOutPoint.Hash
              \o << t.TxIn[idx + 1].PreviousOutPoint.Index >>
              \o <<Len(script)>> \o script
              \o amt \o t.TxIn[idx + 1].Sequence
              \o sigHashes.HashOutputsV0 \o <<t.LockTime, hashType>>),
          err |-> "nil"]

\* ecdsa.Sign(priv, hash).Serialize(): a DER signature, deterministic in the
\* key and the hash (RFC 6979): 0x30 len 0x02 0x20 R 0x02 0x20 S.
SignDER(priv, hash) ==
    <<48, 68, 2, 32>> \o Digest(3, 32, <<priv>> \o hash)
    \o <<2, 32>> \o Digest(4, 32, <<priv>> \o hash)

\* The P2WSH output script the Sign* methods derive from the redeem script:
\* NewScriptBuilder().AddOp(OP_0).AddData(btcutil.Hash160(redeemScript)).
SignPrevOutScript(redeemScript) == <<OP_0>> \o AddData(Hash160(redeemScript))

\* The witness element that selects the IF branch: {txscript.OP_1}.
OwnerSelector == <<OP_1>>

\* The witness element that selects the ELSE branch: {txscript.OP_0}.
InheritorSelector == <<OP_0>>

\* A signing that writes the selector and the redeem script into the witness
\* of input 0 before it computes the signature hash, and the signature after.
SignTransaction_eager(tb, t, contractUTXO, redeemScript, privateKey, selector) ==
    LET p2wshScript == SignPrevOutScript(redeemScript)
        prev == [OutPoint |-> NewOutPoint(contractUTXO.TxHash, contractUTXO.Vout),
                 Value    |-> contractUTXO.Amount,
                 PkScript |-> p2wshScript]
        sigHash   == CalcWitnessSigHash(redeemScript, NewTxSigHashes(t), SigHashAll,
                                        t, 0, contractUTXO.Amount)
        sigBytes  == Append(SignDER(privateKey, sigHash.hash), SigHashAll)
    IN  IF Len(t.TxIn) = 0
        THEN [tx |-> t, err |-> "failed to calculate signature hash",
              prevOut |-> <<prev>>]
        ELSE IF sigHash.err # "nil"
        THEN [tx |-> [t EXCEPT !.TxIn[1].Witness = << selector, redeemScript >>],
              err |-> "failed to calculate signature hash", prevOut |-> <<prev>>]
        ELSE [tx |-> [t EXCEPT !.TxIn[1].Witness = << sigBytes, selector, redeemScript >>],
              err |-> "nil", prevOut |-> <<prev>>]

\* A signing that adds its three elements to the witness input 0 has.
SignTransaction_appending(tb, t, contractUTXO, redeemScript, privateKey, selector) ==
    LET sigHash   == CalcWitnessSigHash(redeemScript, NewTxSigHashes(t), SigHashAll,
                                        t, 0, contractUTXO.Amount)
        sigBytes  == Append(SignDER(privateKey, sigHash.hash), SigHashAll)
        prev == [OutPoint |-> NewOutPoint(contractUTXO.TxHash, contractUTXO.Vout),
                 Value    |-> contractUTXO.Amount,
                 PkScript |-> SignPrevOutScript(redeemScript)]
    IN  IF sigHash.err # "nil"
        THEN [tx |-> t, err |-> "failed to calculate signature hash",
              prevOut |-> <<prev>>]
        ELSE [tx |-> [t EXCEPT !.TxIn[1].Witness =
                                   @ \o << sigBytes, selector, redeemScript >>],
              err |-> "nil", prevOut |-> <<prev>>]

\* The body shared by SignOwnerTransaction and SignInheritorTransaction,
\* which differ in the selector only.  t is the transaction signed, and
\* contractUTXO the output its input 0 spends (as in both workflows; with any
\* other outpoint NewTxSigHashes finds no previous output).
SignTransaction(tb, t, contractUTXO, redeemScript, privateKey, selector) ==
    LET p2wshScript == SignPrevOutScript(redeemScript)
        prev == [OutPoint |-> NewOutPoint(contractUTXO.TxHash, contractUTXO.Vout),
                 Value    |-> contractUTXO.Amount,
                 PkScript |-> p2wshScript]
        sigHashes == NewTxSigHashes(t)
        hashType  == SigHashAll
        sigHash   == CalcWitnessSigHash(redeemScript, sigHashes, hashType, t, 0,
                                        contractUTXO.Amount)
        sigBytes  == Append(SignDER(privateKey, sigHash.hash), hashType)
        witness   == << sigBytes, selector, redeemScript >>
    IN  IF sigHash.err # "nil"
        THEN [tx |-> t, err |-> "failed to calculate signature hash",
              prevOut |-> <<prev>>]
        ELSE [tx |-> [t EXCEPT !.TxIn[1].Witness = witness], err |-> "nil",
              prevOut |-> <<prev>>]

\* TransactionBuilder.SignOwnerTransaction (IF path).
SignOwnerTransaction(tb, t, contractUTXO, redeemScript, ownerPrivateKey) ==
    SignTransaction(tb, t, contractUTXO, redeemScript, ownerPrivateKey,
                    OwnerSelector)

\* TransactionBuilder.SignInheritorTransaction (ELSE path).
SignInheritorTransaction(tb, t, contractUTXO, redeemScript, inheritorPrivateKey) ==
    SignTransaction(tb, t, contractUTXO, redeemScript, inheritorPrivateKey,
                    InheritorSelector)

RECURSIVE TotalOut(_)
\* The running sum of output values of ValidateTransaction.
TotalOut(outs) ==
    IF outs = <<>> THEN Int64Words(0)
    ELSE Add64(TotalOut(SubSeq(outs, 1, Len(outs) - 1)), outs[Len(outs)].Value)

\* TransactionBuilder.ValidateTransaction on <<>> (nil) or <<tx>>.
ValidateTransaction(mtx) ==
    IF mtx = <<>> THEN "transaction is nil"
    ELSE IF Len(mtx[1].TxIn) = 0 THEN "transaction has no inputs"
    ELSE IF Len(mtx[1].TxOut) = 0 THEN "transaction has no outputs"
    ELSE IF IsNegative64(TotalOut(mtx[1].TxOut)) THEN "transaction has negative output value"
    ELSE "nil"

\* MsgTx.Serialize: version, the marker and flag bytes when an input has a
\* witness, the inputs, the outputs, the witnesses, the lock time.  Bytes32
\* is a uint32 least significant byte first, WriteVarInt a count or length
\* below 0x10000.
Serialize(t) ==
    LET Bytes32(u) == << u[2] % 256, u[2] \div 256, u[1] % 256, u[1] \div 256 >>
        WriteVarInt(n) == IF n < 253 THEN <<n>> ELSE <<253, n % 256, n \div 256>>
        WriteVarBytes(bytes) == WriteVarInt(Len(bytes)) \o bytes
        HasWitness == \E i \in 1 .. Len(t.TxIn) : Len(t.TxIn[i].Witness) > 0
        txIn(ti) == ti.PreviousOutPoint.Hash
                    \o Bytes32(Uint32OfInt64(Int64Words(ti.PreviousOutPoint.Index)))
                    \o WriteVarBytes(ti.SignatureScript) \o Bytes32(ti.Sequence)
        txOut(to) == Bytes64(to.Value) \o WriteVarBytes(to.PkScript)
        witness(ti) == WriteVarInt(Len(ti.Witness))
                       \o Flatten([j \in 1 .. Len(ti.Witness) |-> WriteVarBytes(ti.Witness[j])])
    IN  Bytes32(Uint32OfInt64(Int64Words(t.Version)))
        \o (IF HasWitness THEN <<0, 1>> ELSE <<>>)
        \o WriteVarInt(Len(t.TxIn)) \o Flatten([i \in 1 .. Len(t.TxIn) |-> txIn(t.TxIn[i])])
        \o WriteVarInt(Len(t.TxOut)) \o Flatten([i \in 1 .. Len(t.TxOut) |-> txOut(t.TxOut[i])])
        \o (IF HasWitness THEN Flatten([i \in 1 .. Len(t.TxIn) |-> witness(t.TxIn[i])])
            ELSE <<>>)
        \o Bytes32(Uint32OfInt64(Int64Words(t.LockTime)))

\* TransactionBuilder.SerializeTransaction: the hex digits of the
\* serialization; writing to a bytes.Buffer returns no error.
SerializeTransaction(t) == [txHex |-> HexEncode(Serialize(t)), err |-> "nil"]

(***************************************************************************)
(* contract: the contract records saved under contracts/.  Strings are     *)
(* sequences of ASCII codes; a JSON file is the function from the names of *)
(* the fields written to their values.  CreatedAt is left out.             *)
(***************************************************************************)

\* The zero value of ContractInfo, which json.Unmarshal fills in.
ZeroContractInfo ==
    [ContractID |-> <<>>, Network |-> "", TimelockDays |-> 0,
     OwnerWIF |-> <<>>, InheritorWIF |-> <<>>,
     RedeemScript |-> <<>>, P2WSHAddress |-> <<>>, ScriptHash |-> <<>>,
     IsFunded |-> FALSE, FundingTxID |-> <<>>,
     FundingAmount |-> Int64Words(0), FundingVout |-> 0]

\* json.MarshalIndent: the fields tagged omitempty (FundingTxID,
\* FundingAmount, FundingVout) are written only when they are not zero.
MarshalContractInfo(info) ==
    LET omitempty == {"FundingTxID", "FundingAmount", "FundingVout"}
        written == { f \in DOMAIN info :
                        f \in omitempty => info[f] # ZeroContractInfo[f] }
    IN  [f \in written |-> info[f]]

\* json.Unmarshal into a zero ContractInfo.
UnmarshalContractInfo(data) ==
    [f \in DOMAIN ZeroContractInfo |->
        IF f \in DOMAIN data THEN data[f] ELSE ZeroContractInfo[f]]

\* SaveContractInfo: writes contracts/<ContractID>.json, replacing a file of
\* that name.  dir is the directory, file name -> contents.
SaveContractInfo(dir, contractInfo) ==
    [id \in (DOMAIN dir) \cup {contractInfo.ContractID} |->
        IF id = contractInfo.ContractID THEN MarshalContractInfo(contractInfo)
        ELSE dir[id]]

\* LoadContractInfo: <<>> and an error, or <<ContractInfo>>.
LoadContractInfo(dir, contractID) ==
    IF contractID \notin DOMAIN dir
    THEN [info |-> <<>>, err |-> "failed to read contract file"]
    ELSE [info |-> << UnmarshalContractInfo(dir[contractID]) >>, err |-> "nil"]

\* ListContracts: the IDs of the files in the directory.
ListContracts(dir) == DOMAIN dir

\* GenerateContractID: "testnet" or "mainnet", "_", and the last eight
\* characters of the address string.
GenerateContractID(p2wshAddr, chainParams) ==
    LET addrStr == EncodeAddress(p2wshAddr)
        networkPrefix == IF chainParams = "mainnet"
                         THEN <<109, 97, 105, 110, 110, 101, 116>>
                         ELSE <<116, 101, 115, 116, 110, 101, 116>>
    IN  networkPrefix \o <<95>> \o SubSeq(addrStr, Len(addrStr) - 7, Len(addrStr))

\* UpdateFundingStatus: the directory afterwards and the error returned.
UpdateFundingStatus(dir, contractID, txID, vout, amount) ==
    LET loaded == LoadContractInfo(dir, contractID)
    IN  IF loaded.err # "nil"
        THEN [dir |-> dir, err |-> "failed to load contract"]
        ELSE [dir |-> SaveContractInfo(dir,
                          [loaded.info[1] EXCEPT !.IsFunded = TRUE,
                                                 !.FundingTxID = txID,
                                                 !.FundingVout = vout,
                                                 !.FundingAmount = amount]),
              err |-> "nil"]

(***************************************************************************)
(* config: LoadConfig.  The environment gives BITCOIN_NETWORK as a string  *)
(* ("" when unset) and the integer variables as <<>> (unset or not an      *)
(* integer) or <<n>>.  The .env file and the RPC variables are present.    *)
(***************************************************************************)

\* getEnvString.
getEnvString(value, defaultValue) == IF value # "" THEN value ELSE defaultValue

\* getEnvInt64.
getEnvInt64(value, defaultValue) == IF value # <<>> THEN value[1] ELSE defaultValue

\* createTestnetConfig.
createTestnetConfig(env) ==
    [Network |-> "testnet3",
     TimelockDays |-> getEnvInt64(env.TIMELOCK_DAYS, 180),
     DefaultFee |-> getEnvInt64(env.DEFAULT_FEE_SATOSHIS, 2000)]

\* createMainnetConfig.
createMainnetConfig(env) ==
    [Network |-> "mainnet",
     TimelockDays |-> getEnvInt64(env.TIMELOCK_DAYS, 180),
     DefaultFee |-> getEnvInt64(env.DEFAULT_FEE_SATOSHIS, 2000)]

\* LoadConfig.
LoadConfig(env) ==
    LET network == getEnvString(env.BITCOIN_NETWORK, "testnet")
        made == IF network = "mainnet" THEN createMainnetConfig(env)
                ELSE createTestnetConfig(env)
        timelockDays == getEnvInt64(env.TIMELOCK_DAYS, made.TimelockDays)
        defaultFee == getEnvInt64(env.DEFAULT_FEE_SATOSHIS, made.DefaultFee)
    IN  [made EXCEPT !.TimelockDays = IF timelockDays > 0 THEN timelockDays ELSE @,
                     !.DefaultFee = IF defaultFee > 0 THEN defaultFee ELSE @]

(***************************************************************************)
(* SpecBuilder and SpecSigner: a caller holding a UTXO, a fee and a redeem *)
(* script drives the TransactionBuilder: it builds either transaction for  *)
(* some destination, signs the transaction in hand with some private key,  *)
(* and validates it, in any order.  SpecBuilder explores amounts, fees and *)
(* timelock arguments; SpecSigner explores keys and signing.               *)
(***************************************************************************)

\* int64 amounts and fees: small values around the boundary fee = amount,
\* and the two ends of the int64 range.
MinInt64 == << WordBase \div 2, 0, 0, 0 >>
MaxInt64 == << WordBase \div 2 - 1, WordBase - 1, WordBase - 1, WordBase - 1 >>

AmountInputs ==
    { Int64Words(n) : n \in {-1, 0, 1, 500, 501, 1000, 100000} } \cup {MinInt64, MaxInt64}
FeeInputs ==
    { Int64Words(n) : n \in {-1, 0, 1, 500, 999, 1000, 2000} } \cup {MinInt64, MaxInt64}

\* KeyPair.GetP2WPKHAddress: the P2WPKH address of a key pair.
GetP2WPKHAddress(kp) ==
    << [kind |-> "p2wpkh", hrp |-> Bech32HRP(kp.ChainParams), witnessVersion |-> 0,
        witnessProgram |-> Hash160(GetCompressedPubKeyBytes(kp))] >>

\* Destinations: nil, or the P2WPKH address of key 1.
DestInputs == { <<>>, GetP2WPKHAddress(NewKeyPair(1, "testnet3")) }

\* int64 timelock arguments: -168 (one negative day), -1, 0, 144 and 25920
\* (block counts), 0x4076A7, 2^32 - 1, 2^32, 2^32 + 0x4076A7, -2^63.
TimelockInputs ==
    { Int64Words(n) : n \in {-168, -1, 0, 144, 25920, 4224679} }
    \cup { <<0, 0, WordBase - 1, WordBase - 1>>, <<0, 1, 0, 0>>,
           <<0, 1, 64, 30375>>, MinInt64 }

\* What a caller holds: the builder, the contract's script and its UTXO, and
\* the destinations, timelock arguments and private keys it may pass.
Caller(fee, amount, o, h, dests, timelocks, privs) ==
    [tb   |-> NewTransactionBuilder("testnet3", fee),
     is   |-> NewInheritanceScript(PubKeyBytes(o), PubKeyBytes(h), Int64Words(180), "testnet3").is[1],
     utxo |-> [TxHash |-> NewHashFromStr(<<0, 1>>).hash, Vout |-> 0,
               Amount |-> amount, PkScript |-> <<>>],
     dests |-> dests, timelocks |-> timelocks, privs |-> privs]

BuilderInputs ==
    { Caller(fee, amount, 1, 2, DestInputs, TimelockInputs, {}) :
        fee \in FeeInputs, amount \in AmountInputs }

SignerInputs ==
    { Caller(Int64Words(500), Int64Words(amount), o, h, DestInputs \ {<<>>},
             {Int64Words(25920), Int64Words(4224679)}, PrivKeys) :
        amount \in {1000, 100000}, o \in PrivKeys, h \in PrivKeys }

NoCall == [fn |-> "none", dest |-> <<>>, relativeTimelock |-> <<>>, priv |-> 0]

\* No command has run and no transaction is in hand.
Idle ==
    /\ cfg = [Network |-> "testnet3", TimelockDays |-> 180, DefaultFee |-> 2000]
    /\ contracts = <<>>
    /\ tx = <<>>
    /\ result = [err |-> "nil"]
    /\ call = NoCall
    /\ prevOut = <<>>
    /\ scripts = <<>>

InitBuilder ==
    /\ cfg = [Network |-> "testnet3", TimelockDays |-> 180, DefaultFee |-> 2000]
    /\ contracts = <<>>
    /\ tx = <<>>
    /\ result = [err |-> "nil"]
    /\ call = NoCall
    /\ prevOut = <<>>
    /\ args \in BuilderInputs
    /\ retTimelock = <<>>
    /\ scripts = <<>>

InitSigner ==
    /\ cfg = [Network |-> "testnet3", TimelockDays |-> 180, DefaultFee |-> 2000]
    /\ contracts = <<>>
    /\ tx = <<>>
    /\ result = [err |-> "nil"]
    /\ call = NoCall
    /\ prevOut = <<>>
    /\ args \in SignerInputs
    /\ retTimelock = <<>>
    /\ scripts = <<>>

CallBuildOwnerWithdrawTx ==
    \E dest \in args.dests :
    \E r \in { BuildOwnerWithdrawTx(args.tb, args.utxo, dest, args.is.RedeemScript) } :
        /\ tx' = r.tx
        /\ result' = [err |-> r.err]
        /\ call' = [NoCall EXCEPT !.fn = "BuildOwnerWithdrawTx", !.dest = dest]
        /\ prevOut' = <<>>
        /\ UNCHANGED <<cfg, contracts, args, retTimelock, scripts>>

CallBuildInheritorWithdrawTx ==
    \E dest \in args.dests, relativeTimelock \in args.timelocks :
    \E r \in { BuildInheritorWithdrawTx(args.tb, args.utxo, dest,
                                        args.is.RedeemScript, relativeTimelock) } :
        /\ tx' = r.tx
        /\ result' = [err |-> r.err]
        /\ call' = [NoCall EXCEPT !.fn = "BuildInheritorWithdrawTx",
                                  !.dest = dest,
                                  !.relativeTimelock = relativeTimelock]
        /\ prevOut' = <<>>
        /\ UNCHANGED <<cfg, contracts, args, retTimelock, scripts>>

\* The Sign* methods dereference the transaction: they are called with one.
CallSignOwnerTransaction ==
    /\ tx # <<>>
    /\ \E priv \in args.privs :
       \E r \in { SignOwnerTransaction(args.tb, tx[1], args.utxo,
                                       args.is.RedeemScript, priv) } :
        /\ tx' = <<r.tx>>
        /\ result' = [err |-> r.err]
        /\ call' = [NoCall EXCEPT !.fn = "SignOwnerTransaction", !.priv = priv]
        /\ prevOut' = r.prevOut
        /\ UNCHANGED <<cfg, contracts, args, retTimelock, scripts>>

CallSignInheritorTransaction ==
    /\ tx # <<>>
    /\ \E priv \in args.privs :
       \E r \in { SignInheritorTransaction(args.tb, tx[1], args.utxo,
                                           args.is.RedeemScript, priv) } :
        /\ tx' = <<r.tx>>
        /\ result' = [err |-> r.err]
        /\ call' = [NoCall EXCEPT !.fn = "SignInheritorTransaction", !.priv = priv]
        /\ prevOut' = r.prevOut
        /\ UNCHANGED <<cfg, contracts, args, retTimelock, scripts>>

CallValidateTransaction ==
    /\ result' = [err |-> ValidateTransaction(tx)]
    /\ call' = [NoCall EXCEPT !.fn = "ValidateTransaction"]
    /\ prevOut' = <<>>
    /\ UNCHANGED <<cfg, contracts, tx, args, retTimelock, scripts>>

NextBuilder ==
    \/ CallBuildOwnerWithdrawTx
    \/ CallBuildInheritorWithdrawTx
    \/ CallValidateTransaction

SpecBuilder == InitBuilder /\ [][NextBuilder]_vars

NextSigner ==
    \/ CallBuildOwnerWithdrawTx
    \/ CallBuildInheritorWithdrawTx
    \/ CallSignOwnerTransaction
    \/ CallSignInheritorTransaction
    \/ CallValidateTransaction

SpecSigner == InitSigner /\ [][NextSigner]_vars

(***************************************************************************)
(* main: the commands.  Each run is PersistentPreRun followed by the       *)
(* command's handler; what a handler logs is not part of the state.        *)
(***************************************************************************)

\* rootCmd.PersistentPreRun: --testnet=false loads the same configuration
\* again; --timelock-days overrides the day count when positive.
PersistentPreRun(env, testnet, timelockDays) ==
    LET loaded == LoadConfig(env)
        forced == IF ~testnet THEN LoadConfig(env) ELSE loaded
    IN  IF timelockDays > 0 THEN [forced EXCEPT !.TimelockDays = timelockDays]
        ELSE forced

\* generateContract with the keys GenerateInheritanceKeys drew: the
\* directory afterwards, the error returned and the contract ID.  A failed
\* save is only logged.
generateContract(dir, c, ownerPriv, inheritorPriv) ==
    LET Owner == NewKeyPair(ownerPriv, c.Network)
        Inheritor == NewKeyPair(inheritorPriv, c.Network)
        made == NewInheritanceScript(GetCompressedPubKeyBytes(Owner),
                                     GetCompressedPubKeyBytes(Inheritor),
                                     Int64Words(c.TimelockDays), c.Network)
        inheritanceScript == made.is[1]
        p2wshAddr == GetP2WSHAddress(inheritanceScript)
        contractID == GenerateContractID(p2wshAddr.addr[1], c.Network)
        contractInfo ==
            [ZeroContractInfo EXCEPT
                !.ContractID = contractID,
                !.Network = c.Network,
                !.TimelockDays = c.TimelockDays,
                !.OwnerWIF = Owner.WIF,
                !.InheritorWIF = Inheritor.WIF,
                !.RedeemScript = HexEncode(inheritanceScript.RedeemScript),
                !.P2WSHAddress = EncodeAddress(p2wshAddr.addr[1]),
                !.ScriptHash = HexEncode(GetScriptHash(inheritanceScript)),
                !.IsFunded = FALSE]
    IN  IF made.err # "nil"
        THEN [dir |-> dir, err |-> "failed to create inheritance script", id |-> <<>>]
        ELSE IF ValidateScript(inheritanceScript) # "nil"
        THEN [dir |-> dir, err |-> "script validation failed", id |-> <<>>]
        ELSE IF p2wshAddr.err # "nil"
        THEN [dir |-> dir, err |-> "failed to generate P2WSH address", id |-> <<>>]
        ELSE [dir |-> SaveContractInfo(dir, contractInfo), err |-> "nil",
              id |-> contractID]

\* The fee both withdrawal handlers give the builder: btcutil.Amount(500).
WithdrawFee == Int64Words(500)

\* A handler that returned err before it built a transaction.
Failed(err, relativeTimelock, steps) ==
    [err |-> err, tx |-> <<>>, prevOut |-> <<>>, handed |-> <<>>,
     relativeTimelock |-> relativeTimelock, steps |-> steps]

\* A handler that checks no funding status.
NotFunded_never(contractInfo) == FALSE

\* if !contractInfo.IsFunded { return "contract is not funded yet" }
NotFunded(contractInfo) == ~contractInfo.IsFunded

\* The calls a withdrawal handler makes, in the order of its code; the
\* first n of them have been made when it returns after the n-th.
Steps(build, sign, n) ==
    SubSeq(<< "LoadContractInfo", "KeyPairFromWIF", "DecodeAddress", "NewHashFromStr",
              "DecodeString", build, sign, "ValidateTransaction",
              "SerializeTransaction", "ReadString", "BroadcastTransaction" >>, 1, n)

\* ownerWithdraw up to and including ValidateTransaction: the error, the
\* transaction built, the prevOutFetcher entry and what the builder was
\* handed.
ownerWithdraw(dir, c, contractID, destAddrStr) ==
    LET loaded == LoadContractInfo(dir, contractID)
        contractInfo == loaded.info[1]
        ownerKeys == KeyPairFromWIF(contractInfo.OwnerWIF, c.Network)
        destAddr == DecodeAddress(destAddrStr, c.Network)
        fundingHash == NewHashFromStr(contractInfo.FundingTxID)
        redeemScript == HexDecode(contractInfo.RedeemScript)
        contractUTXO == [TxHash |-> fundingHash.hash,
                         Vout |-> contractInfo.FundingVout,
                         Amount |-> contractInfo.FundingAmount,
                         PkScript |-> <<>>]
        fee == WithdrawFee
        txBuilder == NewTransactionBuilder(c.Network, fee)
        built == BuildOwnerWithdrawTx(txBuilder, contractUTXO, destAddr.addr,
                                      redeemScript.bytes)
        signed == SignOwnerTransaction(txBuilder, built.tx[1], contractUTXO,
                                       redeemScript.bytes, ownerKeys.PrivateKey)
        handed == << [fee |-> fee, utxo |-> contractUTXO,
                      priv |-> ownerKeys.PrivateKey] >>
        after(n) == Steps("BuildOwnerWithdrawTx", "SignOwnerTransaction", n)
    IN  IF loaded.err # "nil" THEN Failed("failed to load contract", <<>>, after(1))
        ELSE IF NotFunded(contractInfo)
        THEN Failed("contract is not funded yet", <<>>, after(1))
        ELSE IF destAddr.err # "nil"
        THEN Failed("invalid destination address", <<>>, after(3))
        ELSE IF fundingHash.err # "nil"
        THEN Failed("invalid funding transaction hash", <<>>, after(4))
        ELSE IF redeemScript.err # "nil"
        THEN Failed("failed to decode redeem script", <<>>, after(5))
        ELSE IF built.err # "nil"
        THEN [Failed("failed to build transaction", <<>>, after(6))
                  EXCEPT !.handed = handed]
        ELSE IF signed.err # "nil"
        THEN [err |-> "failed to sign transaction", tx |-> <<signed.tx>>,
              prevOut |-> signed.prevOut, handed |-> handed,
              relativeTimelock |-> <<>>,
              steps |-> after(7)]
        ELSE [err |-> IF ValidateTransaction(<<signed.tx>>) # "nil"
                      THEN "transaction validation failed" ELSE "nil",
              tx |-> <<signed.tx>>, prevOut |-> signed.prevOut, handed |-> handed,
              relativeTimelock |-> <<>>,
              steps |-> Steps("BuildOwnerWithdrawTx", "SignOwnerTransaction", 8)]

\* inheritorWithdraw up to and including ValidateTransaction.  The timelock
\* is computed from the stored day count as a number of blocks.
inheritorWithdraw(dir, c, contractID, destAddrStr) ==
    LET loaded == LoadContractInfo(dir, contractID)
        contractInfo == loaded.info[1]
        relativeTimelock == Int64Words(contractInfo.TimelockDays * 24 * 6)
        inheritorKeys == KeyPairFromWIF(contractInfo.InheritorWIF, c.Network)
        destAddr == DecodeAddress(destAddrStr, c.Network)
        fundingHash == NewHashFromStr(contractInfo.FundingTxID)
        redeemScript == HexDecode(contractInfo.RedeemScript)
        contractUTXO == [TxHash |-> fundingHash.hash,
                         Vout |-> contractInfo.FundingVout,
                         Amount |-> contractInfo.FundingAmount,
                         PkScript |-> <<>>]
        fee == WithdrawFee
        txBuilder == NewTransactionBuilder(c.Network, fee)
        built == BuildInheritorWithdrawTx(txBuilder, contractUTXO, destAddr.addr,
                                          redeemScript.bytes, relativeTimelock)
        signed == SignInheritorTransaction(txBuilder, built.tx[1], contractUTXO,
                                           redeemScript.bytes,
                                           inheritorKeys.PrivateKey)
        handed == << [fee |-> fee, utxo |-> contractUTXO,
                      priv |-> inheritorKeys.PrivateKey] >>
        after(n) == Steps("BuildInheritorWithdrawTx", "SignInheritorTransaction", n)
    IN  IF loaded.err # "nil" THEN Failed("failed to load contract", <<>>, after(1))
        ELSE IF NotFunded(contractInfo)
        THEN Failed("contract is not funded yet", <<>>, after(1))
        ELSE IF destAddr.err # "nil"
        THEN Failed("invalid destination address", <<relativeTimelock>>, after(3))
        ELSE IF fundingHash.err # "nil"
        THEN Failed("invalid funding transaction hash", <<relativeTimelock>>, after(4))
        ELSE IF redeemScript.err # "nil"
        THEN Failed("failed to decode redeem script", <<relativeTimelock>>, after(5))
        ELSE IF built.err # "nil"
        THEN [Failed("failed to build transaction", <<relativeTimelock>>, after(6))
                  EXCEPT !.handed = handed]
        ELSE IF signed.err # "nil"
        THEN [err |-> "failed to sign transaction", tx |-> <<signed.tx>>,
              prevOut |-> signed.prevOut, handed |-> handed,
              relativeTimelock |-> <<relativeTimelock>>,
              steps |-> after(7)]
        ELSE [err |-> IF ValidateTransaction(<<signed.tx>>) # "nil"
                      THEN "transaction validation failed" ELSE "nil",
              tx |-> <<signed.tx>>, prevOut |-> signed.prevOut, handed |-> handed,
              relativeTimelock |-> <<relativeTimelock>>,
              steps |-> Steps("BuildInheritorWithdrawTx", "SignInheritorTransaction", 8)]

(***************************************************************************)
(* Spec: runs of the commands against one contracts/ directory, and        *)
(* UpdateFundingStatus applied to it.                                      *)
(***************************************************************************)

\* The most contract files the directory is let to hold.
MaxContracts == 1

\* How a command is started: the environment and the two persistent flags.
Invocations ==
    { [env |-> [BITCOIN_NETWORK |-> "", TIMELOCK_DAYS |-> <<>>,
                DEFAULT_FEE_SATOSHIS |-> <<>>],
       testnet |-> TRUE, timelockDays |-> 0],
      [env |-> [BITCOIN_NETWORK |-> "testnet", TIMELOCK_DAYS |-> <<>>,
                DEFAULT_FEE_SATOSHIS |-> <<>>],
       testnet |-> FALSE, timelockDays |-> 1],
      [env |-> [BITCOIN_NETWORK |-> "mainnet", TIMELOCK_DAYS |-> <<30>>,
                DEFAULT_FEE_SATOSHIS |-> <<100>>],
       testnet |-> TRUE, timelockDays |-> 365],
      [env |-> [BITCOIN_NETWORK |-> "mainnet", TIMELOCK_DAYS |-> <<-1>>,
                DEFAULT_FEE_SATOSHIS |-> <<>>],
       testnet |-> TRUE, timelockDays |-> 0] }

\* Contract IDs typed in: those of the files there are, and the empty line.
ContractIDInputs == ListContracts(contracts) \cup {<<>>}

\* Destination addresses typed in: the P2WPKH address of key 1 on either
\* network.
DestStrings ==
    { EncodeAddress(GetP2WPKHAddress(NewKeyPair(1, net))[1]) :
        net \in {"testnet3", "mainnet"} }

\* Funding references recorded: a transaction ID of hex digits or one with
\* a character that is no hex digit, output 0, an amount above the fee or
\* equal to it, or the least int64.
FundingTxIDInputs == { <<0, 1>>, <<16>> }
FundingAmountInputs == { Int64Words(1000), Int64Words(500), MinInt64 }

Init ==
    /\ Idle
    /\ args = <<>>
    /\ retTimelock = <<>>

RunGenerate ==
    \E inv \in Invocations, ownerPriv \in PrivKeys, inheritorPriv \in PrivKeys :
    \E c \in { PersistentPreRun(inv.env, inv.testnet, inv.timelockDays) } :
        /\ ownerPriv # inheritorPriv
        /\ \E r \in { generateContract(contracts, c, ownerPriv, inheritorPriv) } :
            /\ Cardinality(DOMAIN r.dir) <= MaxContracts
            /\ cfg' = c
            /\ contracts' = r.dir
            /\ tx' = <<>>
            /\ result' = [err |-> r.err, broadcast |-> FALSE]
            /\ call' = [fn |-> "generateContract", inv |-> inv, contractID |-> r.id]
            /\ prevOut' = <<>>
            /\ UNCHANGED <<args, retTimelock, scripts>>

RunShow ==
    \E inv \in Invocations, contractID \in ContractIDInputs :
        /\ cfg' = PersistentPreRun(inv.env, inv.testnet, inv.timelockDays)
        /\ tx' = <<>>
        /\ result' = [err |-> IF LoadContractInfo(contracts, contractID).err # "nil"
                              THEN "failed to load contract" ELSE "nil",
                      broadcast |-> FALSE]
        /\ call' = [fn |-> "showContract", inv |-> inv, contractID |-> contractID]
        /\ prevOut' = <<>>
        /\ UNCHANGED <<contracts, args, retTimelock, scripts>>

RunList ==
    \E inv \in Invocations :
        /\ cfg' = PersistentPreRun(inv.env, inv.testnet, inv.timelockDays)
        /\ tx' = <<>>
        /\ result' = [err |-> "nil", broadcast |-> FALSE]
        /\ call' = [fn |-> "listContracts", inv |-> inv, contractID |-> <<>>]
        /\ prevOut' = <<>>
        /\ UNCHANGED <<contracts, args, retTimelock, scripts>>

\* strings.ToLower on ASCII: 'A'..'Z' become 'a'..'z'.
ToLower(str) == [i \in 1 .. Len(str) |-> IF str[i] \in 65 .. 90 THEN str[i] + 32 ELSE str[i]]

\* strings.TrimSpace: without the leading and trailing white space, which
\* on ASCII is tab, line feed, vertical tab, form feed, carriage return and
\* space.
TrimSpace(str) ==
    LET IsSpace(ch) == ch \in {9, 10, 11, 12, 13, 32}
        inked == { i \in 1 .. Len(str) : ~IsSpace(str[i]) }
    IN  IF inked = {} THEN <<>>
        ELSE SubSeq(str, CHOOSE i \in inked : \A j \in inked : i <= j,
                         CHOOSE i \in inked : \A j \in inked : j <= i)

\* bufio.Reader.ReadString('\n') on the rest of standard input: the bytes
\* up to and including the first line feed, or all of them and io.EOF.
ReadString(stdin) ==
    LET feeds == { i \in 1 .. Len(stdin) : stdin[i] = 10 }
    IN  IF feeds = {} THEN [line |-> stdin, err |-> "EOF"]
        ELSE [line |-> SubSeq(stdin, 1, CHOOSE i \in feeds : \A j \in feeds : i <= j),
              err |-> "nil"]

\* The answers that confirm: "y" and "yes".
Yes == { <<121>>, <<121, 101, 115>> }

\* A handler that takes every line read for a confirmation.
Confirmed_any(confirm) == TRUE

\* if confirm != "y" && confirm != "yes" { return nil }
Confirmed(confirm) == confirm \in Yes

\* The end of both withdrawal handlers, r being the handler up to and
\* including ValidateTransaction: the transaction is serialized and logged,
\* the answer is read from standard input, and the transaction is broadcast
\* when the answer, in lower case and trimmed, is y or yes.  broadcast tells
\* whether BroadcastTransaction was called, answer is <<>> or the line read.
Finish(r, stdin, rpcErr) ==
    LET serialized == SerializeTransaction(r.tx[1])
        read == ReadString(stdin)
        confirm == TrimSpace(ToLower(read.line))
        unasked == [err |-> r.err, broadcast |-> FALSE, steps |-> r.steps,
                    answer |-> <<>>]
    IN  IF r.err # "nil" THEN unasked
        ELSE IF serialized.err # "nil"
        THEN [unasked EXCEPT !.err = "failed to serialize transaction",
                             !.steps = r.steps \o <<"SerializeTransaction">>]
        ELSE IF read.err # "nil"
        THEN [unasked EXCEPT !.err = "failed to read confirmation",
                             !.steps = r.steps \o <<"SerializeTransaction", "ReadString">>]
        ELSE IF ~Confirmed(confirm)
        THEN [err |-> "nil", broadcast |-> FALSE,
              steps |-> r.steps \o <<"SerializeTransaction", "ReadString">>,
              answer |-> <<read.line>>]
        ELSE [err |-> IF rpcErr # "nil" THEN "failed to broadcast transaction"
                      ELSE "nil",
              broadcast |-> TRUE,
              steps |-> r.steps \o <<"SerializeTransaction", "ReadString",
                                     "BroadcastTransaction">>,
              answer |-> <<read.line>>]

\* What is left on standard input when the confirmation is asked for:
\* "y\n", "yes\n", "Y\n", " Yes \r\n", "n\n", "yess\n", "\n", and "y" with
\* no line feed.
ConfirmInputs ==
    { <<121, 10>>, <<121, 101, 115, 10>>, <<89, 10>>, <<32, 89, 101, 115, 32, 13, 10>>,
      <<110, 10>>, <<121, 101, 115, 115, 10>>, <<10>>, <<121>> }

RunOwnerWithdraw ==
    \E inv \in Invocations, contractID \in ContractIDInputs, destAddrStr \in DestStrings :
    \E c \in { PersistentPreRun(inv.env, inv.testnet, inv.timelockDays) } :
    \E r \in { ownerWithdraw(contracts, c, contractID, destAddrStr) } :
    \E end \in { Finish(r, stdin, rpcErr) :
                     stdin \in ConfirmInputs, rpcErr \in {"nil", "rpc error"} } :
        /\ cfg' = c
        /\ tx' = r.tx
        /\ result' = [err |-> end.err, broadcast |-> end.broadcast]
        /\ call' = [fn |-> "ownerWithdraw", inv |-> inv, contractID |-> contractID,
                    dest |-> destAddrStr, relativeTimelock |-> r.relativeTimelock,
                    handed |-> r.handed, steps |-> end.steps, answer |-> end.answer]
        /\ prevOut' = r.prevOut
        /\ UNCHANGED <<contracts, args, retTimelock, scripts>>

RunInheritorWithdraw ==
    \E inv \in Invocations, contractID \in ContractIDInputs, destAddrStr \in DestStrings :
    \E c \in { PersistentPreRun(inv.env, inv.testnet, inv.timelockDays) } :
    \E r \in { inheritorWithdraw(contracts, c, contractID, destAddrStr) } :
    \E end \in { Finish(r, stdin, rpcErr) :
                     stdin \in ConfirmInputs, rpcErr \in {"nil", "rpc error"} } :
        /\ cfg' = c
        /\ tx' = r.tx
        /\ result' = [err |-> end.err, broadcast |-> end.broadcast]
        /\ call' = [fn |-> "inheritorWithdraw", inv |-> inv, contractID |-> contractID,
                    dest |-> destAddrStr, relativeTimelock |-> r.relativeTimelock,
                    handed |-> r.handed, steps |-> end.steps, answer |-> end.answer]
        /\ prevOut' = r.prevOut
        /\ UNCHANGED <<contracts, args, retTimelock, scripts>>

\* contract.UpdateFundingStatus, as the funding of a contract is recorded.
CallUpdateFundingStatus ==
    \E contractID \in ContractIDInputs, txID \in FundingTxIDInputs,
       amount \in FundingAmountInputs :
    \E r \in { UpdateFundingStatus(contracts, contractID, txID, 0, amount) } :
        /\ contracts' = r.dir
        /\ tx' = <<>>
        /\ result' = [err |-> r.err, broadcast |-> FALSE]
        /\ call' = [fn |-> "UpdateFundingStatus", contractID |-> contractID]
        /\ prevOut' = <<>>
        /\ UNCHANGED <<cfg, args, retTimelock, scripts>>

Next ==
    \/ RunGenerate
    \/ RunShow
    \/ RunList
    \/ RunOwnerWithdraw
    \/ RunInheritorWithdraw
    \/ CallUpdateFundingStatus

Spec == Init /\ [][Next]_vars

(***************************************************************************)
(* Properties of the TransactionBuilder.                                   *)
(***************************************************************************)

\* The last call was one of the two Build* methods.
BuildCalled == call.fn \in {"BuildOwnerWithdrawTx", "BuildInheritorWithdrawTx"}

\* The last call was one of the two Sign* methods.
SignCalled == call.fn \in {"SignOwnerTransaction", "SignInheritorTransaction"}

\* C2 (as stated): BuildInheritorWithdrawTx sets the sequence of the single
\* input exactly equal to the supplied relativeTimelock, for every int64
\* value supplied (negative values and values above 2^32 - 1 included).
C2_Counterexample ==
    (call.fn = "BuildInheritorWithdrawTx" /\ tx # <<>>) =>
        /\ Len(tx[1].TxIn) = 1
        /\ Int64OfUint32(tx[1].TxIn[1].Sequence) = call.relativeTimelock

\* C2 (amended): the sequence of the single input is the low 32 bits of the
\* supplied int64; it equals the supplied value exactly when that value lies
\* in 0 .. 2^32 - 1, and differs from it by a multiple of 2^32 otherwise.
C2_Theorem ==
    (call.fn = "BuildInheritorWithdrawTx" /\ tx # <<>>) =>
        LET v   == call.relativeTimelock
            seq == tx[1].TxIn[1].Sequence
            inRange == v[1] = 0 /\ v[2] = 0
            diff == Sub64(v, Int64OfUint32(seq))
        IN  /\ Len(tx[1].TxIn) = 1
            /\ diff[3] = 0 /\ diff[4] = 0
            /\ (Int64OfUint32(seq) = v) <=> inRange

\* C2: a build that succeeded with the timelock -1, sequence 0xffffffff.
C2_Witness ==
    /\ call.fn = "BuildInheritorWithdrawTx"
    /\ tx # <<>>
    /\ call.relativeTimelock = Int64Words(-1)
    /\ tx[1].TxIn[1].Sequence = << WordBase - 1, WordBase - 1 >>

\* The witness of input 0 is [DER signature || SIGHASH_ALL, selector, script].
WitnessShape(selector) ==
    LET w == tx[1].TxIn[1].Witness
    IN  /\ Len(w) = 3
        /\ Len(w[1]) >= 9
        /\ w[1][1] = 48
        /\ w[1][2] = Len(w[1]) - 3
        /\ w[1][Len(w[1])] = 1
        /\ w[2] = selector
        /\ w[3] = args.is.RedeemScript

\* C3: after a successful SignOwnerTransaction the witness of input 0 has
\* exactly three elements, the DER signature followed by the SIGHASH_ALL
\* byte, the selector and the redeem script, the selector being the one-byte
\* vector 0x01.
C3_Counterexample ==
    (call.fn = "SignOwnerTransaction" /\ result.err = "nil") => WitnessShape(<<1>>)

\* C4: after a successful SignInheritorTransaction the witness of input 0
\* has exactly three elements, the DER signature followed by the SIGHASH_ALL
\* byte, the selector and the redeem script, the selector being the empty
\* byte vector.
C4_Counterexample ==
    (call.fn = "SignInheritorTransaction" /\ result.err = "nil") => WitnessShape(<<>>)

\* C5: in both Sign* methods the previous-output script registered for the
\* funding outpoint is the 34-byte sequence 0x00 0x20 SHA-256(redeemScript),
\* identical to what GetScriptPubKey returns; the amount registered is the
\* UTXO amount and the script code signed is the redeem script.
C5_Counterexample ==
    SignCalled =>
        /\ prevOut # <<>>
        /\ prevOut[1].OutPoint = NewOutPoint(args.utxo.TxHash, args.utxo.Vout)
        /\ Len(prevOut[1].PkScript) = 34
        /\ prevOut[1].PkScript = <<0, 32>> \o SHA256(args.is.RedeemScript)
        /\ prevOut[1].PkScript = GetScriptPubKey(args.is).script
        /\ prevOut[1].Value = args.utxo.Amount
        /\ tx[1].TxIn[1].Witness[1] =
               Append(SignDER(call.priv,
                              CalcWitnessSigHash(args.is.RedeemScript,
                                                 NewTxSigHashes(tx[1]), SigHashAll,
                                                 tx[1], 0, args.utxo.Amount).hash),
                      SigHashAll)

\* C6: SignOwnerTransaction returns an error and sets no witness whenever
\* the public key of the private key supplied differs from the owner key
\* embedded in the redeem script, and SignInheritorTransaction likewise for
\* the inheritor key.
C6_Counterexample ==
    /\ (call.fn = "SignOwnerTransaction"
        /\ PubKeyBytes(call.priv) # args.is.OwnerPubKey)
            => (result.err # "nil" /\ tx[1].TxIn[1].Witness = <<>>)
    /\ (call.fn = "SignInheritorTransaction"
        /\ PubKeyBytes(call.priv) # args.is.InheritorPubKey)
            => (result.err # "nil" /\ tx[1].TxIn[1].Witness = <<>>)

\* a < b for two int64 values, comparing from the sign bit down.
Less64(a, b) ==
    LET key(v) == << (v[1] + WordBase \div 2) % WordBase, v[2], v[3], v[4] >>
        ka == key(a)
        kb == key(b)
    IN  \E i \in 1 .. 4 : ka[i] < kb[i] /\ \A j \in 1 .. (i - 1) : ka[j] = kb[j]

\* The int64 v widened by one word, keeping its sign.
SignExtend(v) == << IF IsNegative64(v) THEN WordBase - 1 ELSE 0 >> \o v

\* C7: for every funding amount and fee, both Build* methods return an
\* insufficient-funds error and no transaction when fee >= amount, and with
\* a valid destination otherwise return a transaction whose single output
\* value is amount - fee (as integers: value + fee = amount).
C7_Counterexample ==
    BuildCalled =>
        IF ~Less64(args.tb.fee, args.utxo.Amount)
        THEN tx = <<>> /\ result.err = "insufficient funds"
        ELSE call.dest # <<>> =>
                /\ tx # <<>>
                /\ result.err = "nil"
                /\ Len(tx[1].TxOut) = 1
                /\ AddCarry(SignExtend(tx[1].TxOut[1].Value), SignExtend(args.tb.fee), 0)
                       = SignExtend(args.utxo.Amount)

(***************************************************************************)
(* Properties of the withdrawal workflows.                                 *)
(***************************************************************************)

RECURSIVE FromLittleEndian(_)
\* The number a little-endian byte string holds.
FromLittleEndian(bytes) ==
    IF bytes = <<>> THEN 0 ELSE bytes[1] + 256 * FromLittleEndian(Tail(bytes))

\* The timelock pushed in a stored redeem script: the data push that follows
\* OP_IF, the 34-byte key push, OP_CHECKSIG and OP_ELSE.
EmbeddedTimelock(redeemScriptHex) ==
    LET script == HexDecode(redeemScriptHex).bytes
    IN  FromLittleEndian(SubSeq(script, 39, 38 + script[38]))

\* The record of the contract the last command was run on.
CalledContract == UnmarshalContractInfo(contracts[call.contractID])

\* C1: in the inheritor-withdraw workflow the timelock handed to
\* BuildInheritorWithdrawTx, and so the sequence of the single input, equals
\* the encoded timelock calculateRelativeTimelock(TimelockDays) embedded in
\* the contract's redeem script, for every contract with TimelockDays > 0.
C1_Counterexample ==
    (call.fn = "inheritorWithdraw" /\ call.handed # <<>>
     /\ CalledContract.TimelockDays > 0) =>
        LET embedded == EmbeddedTimelock(CalledContract.RedeemScript)
        IN  /\ Int64Words(embedded)
                   = calculateRelativeTimelock(Int64Words(CalledContract.TimelockDays))
            /\ call.relativeTimelock = << Int64Words(embedded) >>
            /\ tx # <<>> =>
                   /\ Len(tx[1].TxIn) = 1
                   /\ Int64OfUint32(tx[1].TxIn[1].Sequence) = Int64Words(embedded)

(***************************************************************************)
(* SpecTimelock: calculateRelativeTimelock applied to one day count.       *)
(***************************************************************************)

\* Largest and most negative day counts tried.
MaxDays == 50000
MaxNegDays == 8

DayInputs == (-MaxNegDays) .. MaxDays

InitTimelock ==
    /\ Idle
    /\ args \in [days : DayInputs]
    /\ retTimelock = <<>>

CallCalculateRelativeTimelock ==
    /\ retTimelock = <<>>
    /\ retTimelock' = << calculateRelativeTimelock(Int64Words(args.days)) >>
    /\ UNCHANGED <<cfg, contracts, tx, result, call, prevOut, args, scripts>>

NextTimelock == CallCalculateRelativeTimelock

SpecTimelock == InitTimelock /\ [][NextTimelock]_vars

\* The interval count floor(days * 86400 / 512) of a non-negative day count,
\* by splitting days = 4q + r: 4 days are exactly 675 intervals.
IntervalsOf(days) == (days \div 4) * 675 + ((days % 4) * 86400) \div 512

\* C8: For every non-negative day count the encoded timelock e satisfies
\* e & 0x400000 = 0x400000 and e & 0x3FFFFF = (days * 86400) div 512.
C8_Counterexample ==
    (retTimelock # <<>> /\ args.days >= 0) =>
        /\ BitAnd(Int64Value(retTimelock[1]), TimeFlag) = TimeFlag
        /\ BitAnd(Int64Value(retTimelock[1]), TimeFlag - 1) = IntervalsOf(args.days)

\* C9: For every non-negative day count the encoded timelock lies in
\* 0x400000..0x7FFFFF: bit 22 set, the low 22 bits holding the interval
\* count, every higher bit (bit 31 included) zero.
C9_Counterexample ==
    (retTimelock # <<>> /\ args.days >= 0) =>
        /\ Int64Value(retTimelock[1]) \in TimeFlag .. (2 * TimeFlag - 1)
        /\ Int64Value(retTimelock[1]) - TimeFlag = IntervalsOf(args.days)
        /\ Uint32OfInt64(retTimelock[1])[1] < WordBase \div 2

\* C10 (as stated): for 180 days the encoded timelock is 0x407647.
C10_Counterexample ==
    (retTimelock # <<>> /\ args.days = 180) => retTimelock[1] = Int64Words(4224583)

\* C10 (amended): for 180 days the interval count is 180*86400/512 = 30375
\* and the encoded timelock is 30375 | 0x400000 = 0x4076A7 (4224679).
C10_Theorem ==
    (retTimelock # <<>> /\ args.days = 180) =>
        /\ IntervalsOf(180) = 30375
        /\ retTimelock[1] = Int64Words(4224679)
        /\ Int64Value(retTimelock[1]) = 4 * 16^5 + 0 * 16^4 + 7 * 16^3 + 6 * 16^2 + 10 * 16 + 7

C10_Witness == retTimelock # <<>> /\ args.days = 180

(***************************************************************************)
(* SpecScript: a caller of the script package.  It holds two keys, a day   *)
(* count and chain parameters, constructs inheritance scripts from them    *)
(* and calls the methods of the scripts it constructed.                    *)
(***************************************************************************)

\* Inheritance scripts one caller constructs from the same arguments.
MaxScripts == 2

\* Key arguments: the compressed keys of the private keys, nil (of length 0
\* like the empty slice), a key cut to 32 bytes, a key with a 34th byte, and
\* a slice longer than the largest script element.
KeyInputs ==
    { PubKeyBytes(p) : p \in PrivKeys }
    \cup { <<>>, Tail(PubKeyBytes(1)), PubKeyBytes(1) \o <<0>>,
           [i \in 1 .. MaxScriptElementSize + 1 |-> 7] }

\* The least day count whose second count days * 86400 leaves the int64
\* range: 106751991167301.
WrapDays == << 0, 24855, 8835, 14661 >>

\* Day counts: negative ones, zero, one, the default, the last one whose
\* interval count fits 16 bits and the next, the first one whose interval
\* count passes 22 bits, and the day counts at which the int64 product wraps.
ScriptDayInputs ==
    { Int64Words(d) : d \in ((-MaxNegDays) .. 1) \cup {180, 24855, 24856, 49711} }
    \cup { WrapDays, Neg64(WrapDays) }

InitScript ==
    /\ Idle
    /\ args \in [ownerPubKey : KeyInputs, inheritorPubKey : KeyInputs,
                 timelockDays : ScriptDayInputs, chainParams : {"testnet3", "mainnet"}]
    /\ retTimelock = <<>>

\* A call of NewInheritanceScript with the caller's arguments; the caller
\* keeps the script it gets.
CallNewInheritanceScript(limit) ==
    /\ Len(scripts) < limit
    /\ \E r \in { NewInheritanceScript(args.ownerPubKey, args.inheritorPubKey,
                                       args.timelockDays, args.chainParams) } :
        /\ scripts' = scripts \o r.is
        /\ result' = [err |-> r.err]
        /\ call' = [fn |-> "NewInheritanceScript", is |-> Len(scripts')]
        /\ UNCHANGED <<cfg, contracts, tx, prevOut, args, retTimelock>>

CallValidateScript ==
    \E i \in 1 .. Len(scripts) :
        /\ result' = [err |-> ValidateScript(scripts[i])]
        /\ call' = [fn |-> "ValidateScript", is |-> i]
        /\ UNCHANGED <<cfg, contracts, tx, prevOut, args, retTimelock, scripts>>

CallGetScriptHash ==
    \E i \in 1 .. Len(scripts) :
        /\ result' = [err |-> "nil", hash |-> GetScriptHash(scripts[i])]
        /\ call' = [fn |-> "GetScriptHash", is |-> i]
        /\ UNCHANGED <<cfg, contracts, tx, prevOut, args, retTimelock, scripts>>

CallGetP2WSHAddress ==
    \E i \in 1 .. Len(scripts) :
    \E r \in { GetP2WSHAddress(scripts[i]) } :
        /\ result' = [err |-> r.err, addr |-> r.addr]
        /\ call' = [fn |-> "GetP2WSHAddress", is |-> i]
        /\ UNCHANGED <<cfg, contracts, tx, prevOut, args, retTimelock, scripts>>

CallGetScriptPubKey ==
    \E i \in 1 .. Len(scripts) :
    \E r \in { GetScriptPubKey(scripts[i]) } :
        /\ result' = [err |-> r.err, script |-> r.script]
        /\ call' = [fn |-> "GetScriptPubKey", is |-> i]
        /\ UNCHANGED <<cfg, contracts, tx, prevOut, args, retTimelock, scripts>>

NextScript ==
    \/ CallNewInheritanceScript(MaxScripts)
    \/ CallValidateScript
    \/ CallGetScriptHash
    \/ CallGetP2WSHAddress
    \/ CallGetScriptPubKey

SpecScript == InitScript /\ [][NextScript]_vars

(***************************************************************************)
(* SpecRedeem: NewInheritanceScript applied once to two compressed keys    *)
(* and a day count of the range 0 .. MaxRedeemDays.                        *)
(***************************************************************************)

MaxRedeemDays == 24855

InitRedeem ==
    /\ Idle
    /\ args \in [ownerPubKey : { PubKeyBytes(p) : p \in PrivKeys },
                 inheritorPubKey : { PubKeyBytes(p) : p \in PrivKeys },
                 timelockDays : { Int64Words(d) : d \in 0 .. MaxRedeemDays },
                 chainParams : {"testnet3"}]
    /\ retTimelock = <<>>

NextRedeem == CallNewInheritanceScript(1)

SpecRedeem == InitRedeem /\ [][NextRedeem]_vars

\* The script the last call constructed or was made on.
TheScript == scripts[call.is]

RECURSIVE Tokens(_)
\* A script split into its instructions: each opcode with the bytes it
\* pushes (direct pushes 1..75 and OP_PUSHDATA1; no other push is built).
Tokens(script) ==
    IF script = <<>> THEN <<>>
    ELSE LET op == script[1]
             skip == IF op >= 1 /\ op < OP_PUSHDATA1 THEN 1
                     ELSE IF op = OP_PUSHDATA1 THEN 2 ELSE 0
             size == IF skip = 1 THEN op
                     ELSE IF skip = 2 THEN script[2] ELSE 0
             first == IF skip = 0 THEN 2 ELSE skip + 1
         IN  << [op |-> op, data |-> SubSeq(script, first, first + size - 1)] >>
             \o Tokens(SubSeq(script, first + size, Len(script)))

\* How many instructions of a token sequence are the opcode op.
CountOp(tokens, op) == Cardinality({ i \in 1 .. Len(tokens) : tokens[i].op = op })

\* The position of the only instruction with opcode op.
IndexOfOp(tokens, op) == CHOOSE i \in 1 .. Len(tokens) : tokens[i].op = op

\* The bytes of key occur in script as one contiguous run.
Contains(script, key) ==
    \E i \in 1 .. (Len(script) - Len(key) + 1) :
        SubSeq(script, i, i + Len(key) - 1) = key

\* C11: for every pair of 33-byte keys and every day count 0..24855 the
\* redeem script is OP_IF, push of the owner key, OP_CHECKSIG, OP_ELSE, the
\* 3-byte minimal little-endian push of the encoded timelock,
\* OP_CHECKSEQUENCEVERIFY, OP_DROP, push of the inheritor key, OP_CHECKSIG,
\* OP_ENDIF: 79 bytes, first 0x63, last 0x68, both keys contiguous, one
\* OP_CHECKSIG opcode in each branch and one OP_CHECKSEQUENCEVERIFY opcode.
C11_Theorem ==
    (/\ call.fn = "NewInheritanceScript"
     /\ Len(args.ownerPubKey) = 33 /\ Len(args.inheritorPubKey) = 33
     /\ ~IsNegative64(args.timelockDays)
     /\ Int64Value(args.timelockDays) <= 24855) =>
        /\ result.err = "nil"
        /\ LET script == TheScript.RedeemScript
               e == TimeFlag + IntervalsOf(Int64Value(args.timelockDays))
               number == << e % 256, (e \div 256) % 256, e \div 65536 >>
               tokens == Tokens(script)
               else == IndexOfOp(tokens, OP_ELSE)
           IN  /\ number[3] \in 1 .. 127
               /\ script = <<OP_IF, 33>> \o args.ownerPubKey
                           \o <<OP_CHECKSIG, OP_ELSE, 3>> \o number
                           \o <<OP_CHECKSEQUENCEVERIFY, OP_DROP, 33>>
                           \o args.inheritorPubKey \o <<OP_CHECKSIG, OP_ENDIF>>
               /\ Len(script) = 79
               /\ script[1] = 99 /\ script[Len(script)] = 104
               /\ Contains(script, args.ownerPubKey)
               /\ Contains(script, args.inheritorPubKey)
               /\ CountOp(tokens, OP_ELSE) = 1
               /\ CountOp(SubSeq(tokens, 1, else), OP_CHECKSIG) = 1
               /\ CountOp(SubSeq(tokens, else, Len(tokens)), OP_CHECKSIG) = 1
               /\ CountOp(tokens, OP_CHECKSEQUENCEVERIFY) = 1

\* A script was built for the last day count of the range.
C11_Witness ==
    /\ call.fn = "NewInheritanceScript" /\ result.err = "nil"
    /\ args.timelockDays = Int64Words(24855)
    /\ Len(TheScript.RedeemScript) = 79

\* C12: for every redeem script GetScriptHash returns exactly 32 bytes, the
\* single SHA-256 of the redeem script; GetScriptPubKey returns 34 bytes,
\* 0x00 0x20 followed by that hash; and the P2WSH address carries that hash
\* as its witness program, which decoding the address string gives back.
C12_Theorem ==
    LET hash == SHA256(TheScript.RedeemScript)
    IN  /\ call.fn = "GetScriptHash" =>
               /\ Len(result.hash) = 32
               /\ result.hash = hash
        /\ call.fn = "GetScriptPubKey" =>
               /\ result.err = "nil"
               /\ Len(result.script) = 34
               /\ result.script = <<0, 32>> \o hash
               /\ SubSeq(result.script, 3, 34) = GetScriptHash(TheScript)
        /\ call.fn = "GetP2WSHAddress" =>
               /\ result.err = "nil"
               /\ result.addr[1].witnessProgram = GetScriptHash(TheScript)
               /\ LET back == DecodeAddress(EncodeAddress(result.addr[1]),
                                            TheScript.ChainParams)
                  IN  /\ back.err = "nil"
                      /\ back.addr[1].witnessProgram = hash
                      /\ PayToAddrScript(back.addr) = GetScriptPubKey(TheScript)

\* The spend script of a script built from two compressed keys was returned.
C12_Witness ==
    /\ call.fn = "GetScriptPubKey"
    /\ Len(TheScript.RedeemScript) = 79
    /\ Len(result.script) = 34

ValidKeys == Len(args.ownerPubKey) = 33 /\ Len(args.inheritorPubKey) = 33

\* C14: for every negative day count, with 33-byte keys, NewInheritanceScript
\* succeeds and returns a script whose RelativeTimelock is negative, and
\* ValidateScript on that script fails with the non-positive-timelock error.
C14_Counterexample ==
    (ValidKeys /\ IsNegative64(args.timelockDays)) =>
        /\ call.fn = "NewInheritanceScript" =>
               /\ result.err = "nil"
               /\ IsNegative64(TheScript.RelativeTimelock)
        /\ call.fn = "ValidateScript" =>
               result.err = "relative timelock must be positive"

\* C15: for timelockDays = 0 the encoded timelock is exactly 0x400000,
\* construction succeeds with a non-empty script, and ValidateScript passes.
C15_Theorem ==
    (ValidKeys /\ IsZero64(args.timelockDays)) =>
        /\ call.fn = "NewInheritanceScript" =>
               /\ result.err = "nil"
               /\ TheScript.RelativeTimelock = << 0, 0, 64, 0 >>
               /\ Int64Value(TheScript.RelativeTimelock) = 4 * 16^5
               /\ Len(TheScript.RedeemScript) > 0
        /\ call.fn = "ValidateScript" => result.err = "nil"

\* A script made for zero days was validated.
C15_Witness ==
    /\ ValidKeys /\ IsZero64(args.timelockDays)
    /\ call.fn = "ValidateScript" /\ result.err = "nil"
    /\ TheScript.RelativeTimelock = Int64Words(TimeFlag)

\* C16: when the owner key or the inheritor key is not exactly 33 bytes
\* long, NewInheritanceScript followed by ValidateScript reports an error at
\* one of the two stages (a script that was constructed fails validation);
\* ValidateScript succeeds only if both keys are exactly 33 bytes long.
C16_Theorem ==
    /\ (~ValidKeys /\ call.fn = "NewInheritanceScript") =>
           \/ result.err # "nil" /\ scripts = <<>>
           \/ ValidateScript(TheScript) # "nil"
    /\ (~ValidKeys /\ call.fn = "ValidateScript") =>
           result.err \in { "owner public key must be 33 bytes (compressed)",
                            "inheritor public key must be 33 bytes (compressed)" }
    /\ (call.fn = "ValidateScript" /\ result.err = "nil") =>
           /\ Len(TheScript.OwnerPubKey) = 33
           /\ Len(TheScript.InheritorPubKey) = 33

\* A script with a 34-byte inheritor key was constructed and its validation
\* reported the key.
C16_Witness ==
    /\ Len(args.ownerPubKey) = 33 /\ Len(args.inheritorPubKey) = 34
    /\ call.fn = "ValidateScript"
    /\ result.err = "inheritor public key must be 33 bytes (compressed)"

\* C17: when the owner key and the inheritor key are the same 33-byte key
\* and the day count is positive, NewInheritanceScript succeeds and
\* ValidateScript passes.
C17_Counterexample ==
    (/\ ValidKeys /\ args.ownerPubKey = args.inheritorPubKey
     /\ ~IsNegative64(args.timelockDays) /\ ~IsZero64(args.timelockDays)) =>
        /\ call.fn = "NewInheritanceScript" => result.err = "nil"
        /\ call.fn = "ValidateScript" => result.err = "nil"

(***************************************************************************)
(* SpecValidate: ValidateTransaction applied to a transaction the caller   *)
(* put together itself: nil, or up to MaxOutputs outputs of any value,     *)
(* with or without an input.                                               *)
(***************************************************************************)

MaxOutputs == 2

\* Output values: negative, zero, positive, and the ends of the int64 range.
ValueInputs == { Int64Words(n) : n \in {-5, -1, 0, 1, 5} } \cup {MinInt64, MaxInt64}

\* The output lists of a length up to MaxOutputs.
OutputInputs ==
    UNION { [1 .. n -> { NewTxOut(v, <<>>) : v \in ValueInputs }] : n \in 0 .. MaxOutputs }

\* The input lists: none, or one input spending output 0 of a transaction.
InputInputs ==
    { <<>>, << NewTxIn(NewOutPoint(NewHashFromStr(<<0, 1>>).hash, 0), <<>>, <<>>) >> }

TxInputs ==
    { <<>> } \cup
    { << [NewMsgTx(TxVersion) EXCEPT !.TxIn = ins, !.TxOut = outs] >> :
        ins \in InputInputs, outs \in OutputInputs }

InitValidate ==
    /\ cfg = [Network |-> "testnet3", TimelockDays |-> 180, DefaultFee |-> 2000]
    /\ contracts = <<>>
    /\ tx \in TxInputs
    /\ result = [err |-> "nil"]
    /\ call = NoCall
    /\ prevOut = <<>>
    /\ args = <<>>
    /\ retTimelock = <<>>
    /\ scripts = <<>>

NextValidate == CallValidateTransaction

SpecValidate == InitValidate /\ [][NextValidate]_vars

\* C18: ValidateTransaction returns an error exactly when the transaction is
\* nil, has no inputs, has no outputs, or has an output whose value is
\* negative, and succeeds otherwise.
C18_Counterexample ==
    call.fn = "ValidateTransaction" =>
        (result.err # "nil" <=>
            \/ tx = <<>>
            \/ Len(tx[1].TxIn) = 0
            \/ Len(tx[1].TxOut) = 0
            \/ \E i \in 1 .. Len(tx[1].TxOut) : IsNegative64(tx[1].TxOut[i].Value))

\* C19: BuildOwnerWithdrawTx leaves the sequence of the input at the default
\* 0xFFFFFFFF, whose bit 31 disables relative-locktime enforcement; it never
\* writes a timelock into it.
C19_Theorem ==
    (call.fn = "BuildOwnerWithdrawTx" /\ tx # <<>>) =>
        /\ result.err = "nil"
        /\ Len(tx[1].TxIn) = 1
        /\ tx[1].TxIn[1].Sequence = << 65535, 65535 >>
        /\ tx[1].TxIn[1].Sequence = MaxTxInSequenceNum
        /\ tx[1].TxIn[1].Sequence[1] >= 32768

\* An owner withdrawal was built.
C19_Witness ==
    /\ call.fn = "BuildOwnerWithdrawTx" /\ tx # <<>>
    /\ Len(tx[1].TxIn) = 1 /\ Len(tx[1].TxOut) = 1

(***************************************************************************)
(* SpecSignAny: the Sign* methods applied to a transaction and a redeem    *)
(* script the caller supplies: the transaction has an input or none, the   *)
(* script is the contract's or a prefix of it that ends inside a push.     *)
(***************************************************************************)

\* Length of the prefix of the redeem script that is passed as a script.
CutLength == 30

SignAnyInputs ==
    LET held == Caller(Int64Words(500), Int64Words(1000), 1, 2, {}, {}, PrivKeys)
    IN  { [held EXCEPT !.is.RedeemScript = script] :
            script \in { held.is.RedeemScript,
                         SubSeq(held.is.RedeemScript, 1, CutLength) } }

InitSignAny ==
    /\ cfg = [Network |-> "testnet3", TimelockDays |-> 180, DefaultFee |-> 2000]
    /\ contracts = <<>>
    /\ tx \in TxInputs \ { <<>> }
    /\ result = [err |-> "nil"]
    /\ call = NoCall
    /\ prevOut = <<>>
    /\ args \in SignAnyInputs
    /\ retTimelock = <<>>
    /\ scripts = <<>>

NextSignAny ==
    \/ CallSignOwnerTransaction
    \/ CallSignInheritorTransaction

SpecSignAny == InitSignAny /\ [][NextSignAny]_vars

\* C20: when SignOwnerTransaction or SignInheritorTransaction returns an
\* error, the transaction passed in is left exactly as it was before the
\* call: no witness is written to input 0.
C20_Theorem ==
    [][(SignCalled' /\ result'.err # "nil") => tx' = tx]_vars

\* A Sign* call on a transaction with an unsigned input failed, and the
\* input has no witness.
C20_Witness ==
    /\ SignCalled /\ result.err # "nil"
    /\ Len(tx[1].TxIn) = 1
    /\ tx[1].TxIn[1].Witness = <<>>

(***************************************************************************)
(* Properties of the command line program.                                 *)
(***************************************************************************)

\* The transaction in hand carries a three-element witness on its single
\* input whose second element is the given branch selector.
SignedFor(t, selector) ==
    /\ t # <<>>
    /\ Len(t[1].TxIn) = 1
    /\ Len(t[1].TxIn[1].Witness) = 3
    /\ t[1].TxIn[1].Witness[2] = selector

\* The funding reference the transaction in hand spends.
FundingRef(t) == t[1].TxIn[1].PreviousOutPoint

\* C21: for any single funding reference, over any sequence of owner-withdraw
\* and inheritor-withdraw operations, the system never produces both a signed
\* owner-path transaction and a signed inheritor-path transaction spending
\* that funding reference; here for two operations that follow each other.
C21_Counterexample ==
    [][/\ ~(/\ SignedFor(tx, OwnerSelector) /\ SignedFor(tx', InheritorSelector)
            /\ FundingRef(tx) = FundingRef(tx'))
       /\ ~(/\ SignedFor(tx, InheritorSelector) /\ SignedFor(tx', OwnerSelector)
            /\ FundingRef(tx) = FundingRef(tx'))]_vars

\* The last operation was a run of one of the commands.
CommandRun ==
    call.fn \in {"generateContract", "showContract", "listContracts",
                 "ownerWithdraw", "inheritorWithdraw"}

\* C22: running any command with --testnet=false forces the mainnet
\* configuration: the chain parameters in effect are mainnet whatever the
\* BITCOIN_NETWORK environment setting is.
C22_Counterexample ==
    (CommandRun /\ ~call.inv.testnet) => cfg.Network = "mainnet"

(***************************************************************************)
(* SpecContractID: a caller of the contract package that names P2WSH       *)
(* addresses with GenerateContractID and saves a record under each name.   *)
(***************************************************************************)

\* Witness programs: the SHA-256 of the redeem scripts of owner key 1 and
\* inheritor keys 29516 and 210250 at 180 days, and two further programs.
ProgramInputs ==
    { << 216, 20, 217, 227, 240, 216, 57, 139, 1, 219, 205, 85, 21, 122, 0, 89,
         155, 57, 252, 124, 252, 11, 28, 2, 132, 71, 144, 238, 44, 152, 16, 217 >>,
      << 196, 198, 3, 234, 205, 52, 188, 14, 36, 139, 144, 49, 4, 46, 95, 231,
         223, 222, 12, 93, 128, 81, 213, 33, 110, 29, 6, 165, 72, 9, 2, 217 >>,
      [i \in 1 .. 32 |-> 0],
      [i \in 1 .. 32 |-> i] }

InitContractID ==
    /\ Idle
    /\ args = <<>>
    /\ retTimelock = <<>>

\* GenerateContractID for an address, and SaveContractInfo of a record of
\* that address under the ID.
CallGenerateContractID ==
    \E witnessProg \in ProgramInputs, net \in {"testnet3", "mainnet"} :
    \E made \in { NewAddressWitnessScriptHash(witnessProg, net) } :
    \E contractID \in { GenerateContractID(made.addr[1], net) } :
        /\ contracts' = SaveContractInfo(contracts,
                            [ZeroContractInfo EXCEPT
                                !.ContractID = contractID,
                                !.Network = net,
                                !.P2WSHAddress = EncodeAddress(made.addr[1])])
        /\ call' = [fn |-> "GenerateContractID", p2wshAddr |-> made.addr[1],
                    chainParams |-> net, contractID |-> contractID]
        /\ result' = [err |-> "nil"]
        /\ UNCHANGED <<cfg, tx, prevOut, args, retTimelock, scripts>>

NextContractID == CallGenerateContractID

SpecContractID == InitContractID /\ [][NextContractID]_vars

\* C23: the contract ID is a unique identifier: two distinct P2WSH
\* addresses of one network never get the same ID, so saving the record of
\* a newly named address never replaces the stored record of another
\* address.
C23_Counterexample ==
    [][\A id \in DOMAIN contracts :
          /\ id \in DOMAIN contracts'
          /\ contracts'[id].P2WSHAddress = contracts[id].P2WSHAddress]_vars

WithdrawRun == call.fn \in {"ownerWithdraw", "inheritorWithdraw"}

\* The calls of a whole withdrawal, BroadcastTransaction last.
AllSteps ==
    IF call.fn = "ownerWithdraw"
    THEN Steps("BuildOwnerWithdrawTx", "SignOwnerTransaction", 11)
    ELSE Steps("BuildInheritorWithdrawTx", "SignInheritorTransaction", 11)

\* C24 as stated: in both withdrawal workflows BroadcastTransaction is
\* called only after the transaction was built, signed, validated and
\* serialized and the user answered y or yes; with any other answer it is
\* never called.
C24_Counterexample ==
    (WithdrawRun /\ result.broadcast) =>
        /\ call.steps = AllSteps
        /\ call.answer # <<>>
        /\ \E yes \in Yes : call.answer[1] = yes \o <<10>>

\* C24, amended: in both withdrawal workflows BroadcastTransaction is called
\* only after, in this order, the transaction was built, signed, accepted by
\* ValidateTransaction and serialized, and the line the user answered is y
\* or yes once put in lower case and trimmed of white space; when an earlier
\* step fails, the line cannot be read, or the answer is anything else,
\* BroadcastTransaction is not called.
C24_Theorem ==
    WithdrawRun =>
        /\ result.broadcast =>
            /\ call.steps = AllSteps
            /\ tx # <<>>
            /\ Len(tx[1].TxIn) = 1
            /\ Len(tx[1].TxIn[1].Witness) = 3
            /\ ValidateTransaction(tx) = "nil"
            /\ call.answer # <<>>
            /\ TrimSpace(ToLower(call.answer[1])) \in Yes
        /\ (\/ call.answer = <<>>
            \/ TrimSpace(ToLower(call.answer[1])) \notin Yes
            \/ Len(call.steps) < 10) => ~result.broadcast

C24_Witness ==
    /\ call.fn = "inheritorWithdraw"
    /\ result.broadcast
    /\ call.answer = << <<32, 89, 101, 115, 32, 13, 10>> >>

\* The record stored under an ID, as LoadContractInfo returns it.
Stored(dir, id) == LoadContractInfo(dir, id).info[1]

\* A withdrawal handler that loaded a record whose IsFunded is false
\* returned "contract is not funded yet" with LoadContractInfo its only call.
StopsUnfunded ==
    (/\ WithdrawRun
     /\ call.contractID \in DOMAIN contracts
     /\ ~Stored(contracts, call.contractID).IsFunded)
    => /\ result.err = "contract is not funded yet"
       /\ call.steps = <<"LoadContractInfo">>
       /\ call.handed = <<>>
       /\ tx = <<>>
       /\ ~result.broadcast

\* The record generate saved has IsFunded = false.
GeneratedUnfunded ==
    (call.fn = "generateContract" /\ result.err = "nil")
    => /\ call.contractID \in DOMAIN contracts
       /\ ~Stored(contracts, call.contractID).IsFunded

\* C25: both withdrawal handlers return "contract is not funded yet" before
\* they load a key or build a transaction whenever the loaded record's
\* IsFunded is false; the record generate creates has IsFunded = false, and
\* a record's IsFunded becomes true only by UpdateFundingStatus applied to it.
C25_Theorem ==
    [][/\ StopsUnfunded'
       /\ GeneratedUnfunded'
       /\ \A id \in DOMAIN contracts :
            (/\ ~Stored(contracts, id).IsFunded
             /\ id \in DOMAIN contracts'
             /\ Stored(contracts', id).IsFunded)
            => (call'.fn = "UpdateFundingStatus" /\ call'.contractID = id)]_vars

C25_Witness ==
    /\ call.fn = "inheritorWithdraw"
    /\ call.contractID \in DOMAIN contracts
    /\ result.err = "contract is not funded yet"

(***************************************************************************)
(* SpecBuildSign: a caller that builds, signs and validates withdrawals    *)
(* for every fee and UTXO amount of FeeInputs and AmountInputs.            *)
(***************************************************************************)

BuildSignInputs ==
    { Caller(fee, amount, 1, 2, DestInputs \ {<<>>}, {Int64Words(25920)}, PrivKeys) :
        fee \in FeeInputs, amount \in AmountInputs }

InitBuildSign ==
    /\ Idle
    /\ args \in BuildSignInputs
    /\ retTimelock = <<>>

SpecBuildSign == InitBuildSign /\ [][NextSigner]_vars

\* C26: every transaction BuildOwnerWithdrawTx or BuildInheritorWithdrawTx
\* returns without error has exactly one input and exactly one output, of
\* value at least 1, and ValidateTransaction accepts it, before it is signed
\* and after.
C26_Theorem ==
    /\ (BuildCalled /\ result.err # "nil") => tx = <<>>
    /\ tx # <<>> =>
        /\ Len(tx[1].TxIn) = 1
        /\ Len(tx[1].TxOut) = 1
        /\ ~IsNegative64(tx[1].TxOut[1].Value)
        /\ ~IsZero64(tx[1].TxOut[1].Value)
        /\ ValidateTransaction(tx) = "nil"

C26_Witness ==
    /\ SignCalled
    /\ result.err = "nil"
    /\ Len(tx[1].TxIn[1].Witness) = 3
    /\ tx[1].TxOut[1].Value = Int64Words(1)

\* The transaction t with no witness on input 0.
Unsigned(t) == [t EXCEPT !.TxIn[1].Witness = <<>>]

\* The selector of the Sign* method called last.
LastSelector ==
    IF call.fn = "SignOwnerTransaction" THEN OwnerSelector ELSE InheritorSelector

\* C27: a successful SignOwnerTransaction or SignInheritorTransaction changes
\* only the witness of input 0 (version, inputs' outpoints and sequence
\* numbers, outputs and lock time stay as they were), and after it the
\* witness has exactly three elements, those this call wrote: its signature,
\* its selector and the redeem script, whatever witness was there before.
C27_Theorem ==
    [][(SignCalled' /\ result'.err = "nil") =>
          /\ Len(tx[1].TxIn) >= 1
          /\ Unsigned(tx'[1]) = Unsigned(tx[1])
          /\ Len(tx'[1].TxIn[1].Witness) = 3
          /\ tx'[1].TxIn[1].Witness[2] = LastSelector'
          /\ tx'[1].TxIn[1].Witness[3] = args.is.RedeemScript
          /\ tx'[1] = SignTransaction(args.tb, Unsigned(tx[1]), args.utxo,
                                      args.is.RedeemScript, call'.priv,
                                      LastSelector').tx]_vars

\* SignInheritorTransaction succeeded on a transaction of two outputs.
C27_Witness ==
    /\ call.fn = "SignInheritorTransaction"
    /\ result.err = "nil"
    /\ Len(tx[1].TxOut) = 2
    /\ WitnessShape(InheritorSelector)

\* The record stored under id holds the redeem script and the address of an
\* inheritance script made without error from the record's keys and day
\* count, with two keys of 33 bytes and an encoded timelock above zero.
SoundRecord(dir, id) ==
    LET info == Stored(dir, id)
        made == NewInheritanceScript(PubKeyBytes(info.OwnerWIF.key),
                                     PubKeyBytes(info.InheritorWIF.key),
                                     Int64Words(info.TimelockDays), info.Network)
        p2wshAddr == GetP2WSHAddress(made.is[1])
    IN  /\ made.err = "nil"
        /\ info.RedeemScript = HexEncode(made.is[1].RedeemScript)
        /\ Len(made.is[1].OwnerPubKey) = 33
        /\ Len(made.is[1].InheritorPubKey) = 33
        /\ ~IsNegative64(made.is[1].RelativeTimelock)
        /\ ~IsZero64(made.is[1].RelativeTimelock)
        /\ EmbeddedTimelock(info.RedeemScript) = Int64Value(made.is[1].RelativeTimelock)
        /\ EmbeddedTimelock(info.RedeemScript) > 0
        /\ p2wshAddr.err = "nil"
        /\ info.P2WSHAddress = EncodeAddress(p2wshAddr.addr[1])

\* C28: generate saves a record only after NewInheritanceScript,
\* ValidateScript and GetP2WSHAddress succeeded: the record it writes comes
\* from a script with 33-byte keys and an encoded timelock above zero, and
\* when one of the steps fails the directory is left as it was.
C28_Theorem ==
    [][call'.fn = "generateContract" =>
          IF result'.err = "nil"
          THEN /\ call'.contractID \in DOMAIN contracts'
               /\ SoundRecord(contracts', call'.contractID)
               /\ \A id \in DOMAIN contracts \ {call'.contractID} :
                      id \in DOMAIN contracts' /\ contracts'[id] = contracts[id]
          ELSE contracts' = contracts /\ call'.contractID = <<>>]_vars

\* generate failed at ValidateScript while a contract was on file.
C28_Witness ==
    /\ call.fn = "generateContract"
    /\ result.err = "script validation failed"
    /\ contracts # <<>>

\* An UpdateFundingStatus step for a contract on file stores that contract's
\* record with IsFunded true and the funding reference given, every other
\* field as it was, and leaves the other files alone; for a contract not on
\* file it returns an error and leaves the directory alone.
UpdatesFunding ==
    call'.fn = "UpdateFundingStatus" =>
        IF call'.contractID \in DOMAIN contracts
        THEN /\ result'.err = "nil"
             /\ DOMAIN contracts' = DOMAIN contracts
             /\ Stored(contracts', call'.contractID).IsFunded
             /\ \E txID \in FundingTxIDInputs, amount \in FundingAmountInputs :
                    Stored(contracts', call'.contractID) =
                        [Stored(contracts, call'.contractID) EXCEPT
                            !.IsFunded = TRUE, !.FundingTxID = txID,
                            !.FundingVout = 0, !.FundingAmount = amount]
             /\ \A id \in DOMAIN contracts \ {call'.contractID} :
                    contracts'[id] = contracts[id]
        ELSE /\ result'.err = "failed to load contract"
             /\ contracts' = contracts

\* C29: UpdateFundingStatus on a contract on file sets IsFunded to true and
\* the funding reference to the values given and leaves every other field
\* of the record unchanged; when the contract cannot be loaded it returns
\* an error and writes nothing; and no operation sets the IsFunded of a
\* stored record back to false.
C29_Counterexample ==
    [][/\ UpdatesFunding
       /\ \A id \in DOMAIN contracts :
            Stored(contracts, id).IsFunded =>
                (id \in DOMAIN contracts' /\ Stored(contracts', id).IsFunded)]_vars

\* A withdrawal handler got as far as calling the builder.
BuilderReached == WithdrawRun /\ call.handed # <<>>

\* C30: in both withdrawal workflows the fee handed to the builder is the
\* constant 500 whatever Contract.DefaultFee is configured, so a withdrawal
\* that is built pays FundingAmount - 500 to the destination, and building
\* fails with insufficient funds exactly when FundingAmount <= 500.
C30_Counterexample ==
    BuilderReached =>
        LET FundingAmount == call.handed[1].utxo.Amount
        IN  /\ call.handed[1].fee = Int64Words(500)
            /\ (result.err = "failed to build transaction")
                   <=> Less64(FundingAmount, Int64Words(501))
            /\ tx # <<>> =>
                AddCarry(SignExtend(tx[1].TxOut[1].Value), SignExtend(Int64Words(500)), 0)
                    = SignExtend(FundingAmount)

====
